---- MODULE Spec2Model ----
(***************************************************************************)
(* State-machine model of the flexDeploy coordination engine.              *)
(*                                                                         *)
(*  Part I   server/deployment_scheduler.py : DeploymentScheduler          *)
(*           (one deployment, its deployment_rings rows, the asyncio       *)
(*           progression tasks and the overlapping start/stop calls).      *)
(*  Part II  aws-orchestrator master : slaves, device statuses, ring       *)
(*           membership, tasks, heartbeat monitor.                         *)
(*  Part III simulator DeploymentManager : ring progression by elapsed     *)
(*           time and the deployment status written by config_loader.      *)
(*                                                                         *)
(* Every coroutine is cut at its real suspension points: the code between  *)
(* two suspension points is one action.                                    *)
(***************************************************************************)
EXTENDS Integers, Sequences, FiniteSets, TLC

\* ------------------------------------------------------------------ bounds
NumRings == 3        \* deployment_rings rows of the deployment: ring_id 0..NumRings-1
MaxRuns == 3         \* progression tasks created by start_deployment over a behaviour
MaxCallers == 2      \* start/stop calls that may be in flight at once

RingIds == 0 .. (NumRings - 1)
RunIds == 1 .. MaxRuns
Callers == 1 .. MaxCallers

\* ---- Part II bounds and program constants
MaxSlaves == 2       \* agent ids that may register with the master
MaxTasks == 3        \* tasks submitted over a behaviour
MaxQueue == 3        \* cap on len(task_queue)
MaxAssigned == 2     \* cap on len(slaves[..]["assigned_tasks"])
MaxRingEntries == 2  \* cap on the entries of all ring_assignments lists together
MaxResults == 1      \* cap on completed_tasks + failed_tasks of one slave entry

\* Part IV: the InMemoryQueue channels
QueueMaxsize == 2    \* maxsize of a channel (task_queue_size, scaled down)
MaxSenders == 2      \* coroutines that may be inside send at once
MaxPayloads == 2     \* distinct messages a sender may send
MaxTimeout == 2      \* receive is called with a timeout of 0 .. MaxTimeout seconds
MaxSent == 3         \* cap on the sent counter of a channel

\* Part V: the agents
MaxAgents == 1       \* agents started with start() while the master is started and stopped

\* Part IX: the deployment watcher
MaxDeployments == 2  \* rows of the deployments table

slave_timeout == 20      \* OrchestratorConfig.slave_timeout, seconds
task_timeout == 60       \* OrchestratorConfig.task_timeout, seconds
task_retry_limit == 3    \* OrchestratorConfig.task_retry_limit

\* ---- Part III and Part VII program constants
ring_completion_time == 20   \* DeploymentManager.ring_completion_time, seconds
deployment_monitor_interval == 3 \* DeploymentManager.deployment_monitor_interval, seconds
max_retries == 3            \* config_loader: max_retries of the loops around the SQL statements
deployment_max_retries == 5 \* config_loader.update_deployment_status: max_retries

SlaveIds == 1 .. MaxSlaves
TaskIds == 1 .. MaxTasks

VARIABLES
    \* ---- Part I: server DeploymentScheduler (the tables are shared with Part III)
    deployment_rings,    \* [ring_id -> [status, failure_reason]] rows of the deployment
    deployments,         \* deployments.status of the deployment
    devices,             \* [ring_id -> 0/1] whether the devices table has a row with ring = ring_id
    active_deployments,  \* 0 (no entry) or the id of the task stored for the deployment
    deployment_timers,   \* the deployment's timer dict, status "absent" before the first start
    runs,                \* [RunIds -> asyncio task running _run_deployment]
    calls,               \* [Callers -> start/stop call in flight]
    event,               \* history: the gating call / monitor pass made by the step that led here
    \* ---- Part II: aws-orchestrator MasterOrchestrator
    slaves,              \* dict slave_id -> slave_info, as the sequence of its entries in insertion order
    device_statuses,     \* dict slave_id -> DeviceStatus, as the sequence of its entries
    ring_assignments,    \* [RingType -> sequence of slave ids]
    tasks,               \* [TaskIds -> Task], status "none" before the task is submitted
    task_queue,          \* sequence of task ids (the Task objects of task_queue)
    agents,              \* ids of the agents spawned by this master
    in_flight,           \* <<slave_id, task_id>> of the TASK_ASSIGNMENTs sent and not yet answered
    process_messages,    \* the _process_messages loop: "running", or "crashed" by an exception
    \* ---- Part IV: InMemoryQueue channels and the callers suspended on them
    queues,              \* [SlaveIds -> [queue, sent, received, dropped]] the channel to each agent
    send_calls,          \* [Senders -> send call: pc, channel, message, returned]
    receive_calls,       \* [SlaveIds -> receive call on the agent's channel: pc, timeout, waited, returned]
    assign_call,         \* the _assign_tasks call suspended in _send_message, pc "idle" when none
    \* ---- Part III: simulator DeploymentManager
    manager,             \* deployment_active, current_ring_index, ring_start_time
    watcher,             \* where the watcher coroutine is suspended inside _progress_rings
    api,                 \* where an external complete_deployment call is suspended
    \* ---- Part V: SlaveAgent, the master's channel and the master's life cycle
    slave_agent,         \* [SlaveIds -> the SlaveAgent object and where its loops are]
    master_queue,        \* the messages in the channel of the master, oldest first
    orchestrator,        \* running, the background tasks, and where stop() is
    \* ---- Part VI: persisted writes and the DeviceStatus wire format
    db_write,            \* the config_loader call in flight: attempts made, what it returned
    wire,                \* a DeviceStatus, its to_dict payload and from_dict of the payload
    \* ---- Part IX: the simulator's deployment watcher over several deployments
    deployment_table,       \* [deployment_id -> status of the deployments row, status of its ring rows]
    processed_deployments,  \* DeploymentManager.processed_deployments
    deployment_manager,     \* deployment_active, deployment_id, current_ring_index, ring_start_time
    watcher_loop,           \* the step of run_deployment_watcher's loop that comes next
    starts                  \* history: start_deployment calls per deployment since it last completed

schedVars == <<deployment_rings, deployments, devices, active_deployments,
               deployment_timers, runs, calls>>

masterVars == <<slaves, device_statuses, ring_assignments, tasks, task_queue, agents>>

simVars == <<manager, watcher, api>>

loopVars == <<in_flight, process_messages>>

chanVars == <<queues, send_calls, receive_calls, assign_call>>

agentVars == <<slave_agent, master_queue, orchestrator>>

watchVars == <<deployment_table, processed_deployments, deployment_manager, watcher_loop, starts>>

utilVars == <<db_write, wire, watchVars>>

vars == <<deployment_rings, deployments, devices, active_deployments,
          deployment_timers, runs, calls, event,
          slaves, device_statuses, ring_assignments, tasks, task_queue, agents,
          in_flight, process_messages,
          manager, watcher, api,
          queues, send_calls, receive_calls, assign_call,
          slave_agent, master_queue, orchestrator, db_write, wire,
          deployment_table, processed_deployments, deployment_manager, watcher_loop, starts>>

RingStatus == {"Not Started", "In Progress", "Completed", "Failed", "Stopped"}

\* The gating collaborator's possible answers, as the scheduler sees them:
\* status "passed", status "failed", another status value, or an exception
\* (service error, or a reply without a status key).
GatingOutcomes == {"passed", "failed", "other", "raise"}

FailureReasons == {"cpu exceeds threshold", "memory exceeds threshold"}

\* An asyncio task of _run_deployment: where it is (pc), the rows it fetched at
\* lines 94-99 (rings), the row it is at (ring), a pending cancel() and, as
\* history, the ring whose gating it saw fail (failed_at, -1 if none).
NoRun == [pc |-> "none", rings |-> [r \in RingIds |-> "Not Started"], ring |-> 0,
          must_cancel |-> FALSE, failed_at |-> -1]

\* No message: what receive returns as None.
NoMessage == [type |-> "None", task |-> 0, receiver_id |-> 0, ring |-> "none"]

NoEvent == [kind |-> "none", run |-> 0, ring |-> 0, outcome |-> "none", reason |-> "none",
            removed |-> {}, requeued |-> {},
            sender |-> 0, task |-> 0, sent |-> {}, raised |-> FALSE,
            channel |-> 0, message |-> NoMessage]

NoCall == [op |-> "idle", run |-> 0, ring |-> -1]

SchedInit ==
    /\ deployment_rings = [r \in RingIds |-> [status |-> "Not Started", failure_reason |-> "none"]]
    /\ deployments \in {"Not Started", "In Progress"}
    /\ devices \in [RingIds -> {0, 1}]
    /\ active_deployments = 0
    /\ deployment_timers = [status |-> "absent"]
    /\ runs = [t \in RunIds |-> NoRun]
    /\ calls = [c \in Callers |-> NoCall]
    /\ event = NoEvent

\* An asyncio task is done once its coroutine returned or CancelledError left it.
TaskDone(t) == runs[t].pc \in {"done", "cancelled"}

\* _run_deployment line 108: rings already Completed or Failed are skipped.
SkipRing(current_status) == current_status \in {"Completed", "Failed"}

\* lines 113-118: SELECT COUNT(*) FROM devices WHERE ring = ring_id
device_count(ring_id) == devices[ring_id]

\* Mutant of RingHasNoDevices: the empty-ring shortcut of lines 120-130 is missing.
RingNeverEmpty(ring_id) == FALSE

\* line 120
RingHasNoDevices(ring_id) == device_count(ring_id) = 0

\* _run_deployment lines 106-149: the for loop from position i of the fetched
\* rows up to the next `await asyncio.sleep(30)` or the end of the rows.
\* `rings` are the rows fetched once at lines 94-99; `dr` is the table as
\* written so far in this step. (The timer dict's currentRing and
\* nextCheckTime keys, lines 133-135, are written and never read: the dict is
\* modelled by its status key.)
RECURSIVE RingLoop(_, _, _)
RingLoop(i, rings, dr) ==
    IF i >= NumRings
    THEN [pc |-> "end", ring |-> 0, dr |-> dr]
    ELSE IF SkipRing(rings[i])
    THEN RingLoop(i + 1, rings, dr)
    ELSE IF RingHasNoDevices(i)
    THEN RingLoop(i + 1, rings, [dr EXCEPT ![i].status = "Completed"])
    ELSE [pc |-> "sleep", ring |-> i, dr |-> [dr EXCEPT ![i].status = "In Progress"]]

\* lines 185-193: completed_rings == total_rings
AllRingsCompleted(dr) ==
    Cardinality({r \in RingIds : dr[r].status = "Completed"}) = NumRings

\* A finished task keeps no rows.
Ended(run, pc) == [NoRun EXCEPT !.pc = pc, !.failed_at = run.failed_at]

\* lines 184-212: what follows the for loop (reached by exhaustion or by break).
AfterLoop(t, run, dr, tm, dep) ==
    /\ deployment_rings' = dr
    /\ deployments' = IF AllRingsCompleted(dr) THEN "Completed" ELSE dep
    /\ deployment_timers' = IF AllRingsCompleted(dr)
                            THEN [tm EXCEPT !.status = "completed"]
                            ELSE tm
    /\ active_deployments' = 0
    /\ runs' = [runs EXCEPT ![t] = Ended(run, "done")]

\* The loop either parks the task in its dwell sleep or runs off its end.
Proceed(t, run, res, dep) ==
    IF res.pc = "sleep"
    THEN /\ deployment_rings' = res.dr
         /\ deployments' = dep
         /\ runs' = [runs EXCEPT ![t] = [run EXCEPT !.pc = "sleep", !.ring = res.ring]]
         /\ UNCHANGED <<active_deployments, deployment_timers>>
    ELSE AfterLoop(t, run, res.dr, deployment_timers, dep)

\* _run_deployment lines 90-149: the task's first step.
RunDeploymentStart(t) ==
    /\ UNCHANGED <<masterVars, loopVars, simVars, chanVars, agentVars, utilVars>>
    /\ runs[t].pc = "created"
    /\ ~runs[t].must_cancel
    /\ LET rings == [r \in RingIds |-> deployment_rings[r].status]
           run == [runs[t] EXCEPT !.rings = rings]
       IN Proceed(t, run, RingLoop(0, rings, deployment_rings), deployments)
    /\ event' = NoEvent
    /\ UNCHANGED <<devices, calls>>

\* The gating collaborator on a breach, as lines 162-165 describe it: the ring
\* is marked Failed with the reason, the other rings still Not Started or
\* In Progress are stopped (the deployment row is set by GatingDeployment).
check_gating_factors(dr, k, outcome, reason) ==
    IF outcome = "failed"
    THEN [r \in RingIds |->
            IF r = k THEN [status |-> "Failed", failure_reason |-> reason]
            ELSE IF dr[r].status \in {"Not Started", "In Progress"}
                 THEN [dr[r] EXCEPT !.status = "Stopped"]
                 ELSE dr[r]]
    ELSE dr

GatingDeployment(dep, outcome) == IF outcome = "failed" THEN "Failed" ELSE dep

\* Mutant of GatingBreaks: the break of line 172 is missing.
GatingNeverBreaks(outcome) == FALSE

\* line 158: only the literal status "failed" ends the loop.
GatingBreaks(outcome) == outcome = "failed"

\* _run_deployment lines 149-182 and on: the task wakes from the dwell sleep,
\* calls the gating collaborator for its ring and goes on.
RunDeploymentGate(t, outcome, reason) ==
    /\ UNCHANGED <<masterVars, loopVars, simVars, chanVars, agentVars, utilVars>>
    /\ runs[t].pc = "sleep"
    /\ ~runs[t].must_cancel
    /\ LET k == runs[t].ring
           run == runs[t]
           dr0 == check_gating_factors(deployment_rings, k, outcome, reason)
           dep0 == GatingDeployment(deployments, outcome)
       IN /\ event' = [NoEvent EXCEPT !.kind = "gate", !.run = t, !.ring = k,
                                      !.outcome = outcome,
                                      !.reason = IF outcome = "failed" THEN reason
                                                 ELSE "none"]
          /\ IF outcome = "raise"
             THEN \* lines 217-236: except Exception
                  /\ deployments' = "Failed"
                  /\ deployment_timers' = IF deployment_timers.status # "absent"
                                          THEN [deployment_timers EXCEPT !.status = "error"]
                                          ELSE deployment_timers
                  /\ runs' = [runs EXCEPT ![t] = Ended(run, "done")]
                  /\ UNCHANGED <<deployment_rings, active_deployments>>
             ELSE IF GatingBreaks(outcome)
             THEN \* lines 158-172, then 184-212
                  AfterLoop(t, [run EXCEPT !.failed_at = k], dr0,
                            [deployment_timers EXCEPT !.status = "failed"], dep0)
             ELSE \* lines 174-182, then the loop goes on with the next row
                  Proceed(t, [run EXCEPT !.failed_at = IF outcome = "failed" THEN k ELSE @],
                          RingLoop(k + 1, run.rings, [dr0 EXCEPT ![k].status = "Completed"]),
                          dep0)
    /\ UNCHANGED <<devices, calls>>

\* lines 214-216: CancelledError is thrown into the task at its suspension
\* point (or before its first step) and leaves through `raise`.
RunDeploymentCancelled(t) ==
    /\ UNCHANGED <<masterVars, loopVars, simVars, chanVars, agentVars, utilVars>>
    /\ runs[t].pc \in {"created", "sleep"}
    /\ runs[t].must_cancel
    /\ runs' = [runs EXCEPT ![t] = Ended(runs[t], "cancelled")]
    /\ event' = NoEvent
    /\ UNCHANGED <<deployment_rings, deployments, devices, active_deployments,
                   deployment_timers, calls>>

\* start_deployment lines 41-51: create the task, store it, reset the timer dict.
CreateTask(rs) ==
    LET t == CHOOSE x \in RunIds : rs[x].pc = "none" /\ \A y \in RunIds : rs[y].pc = "none" => x <= y
    IN /\ runs' = [rs EXCEPT ![t] = [NoRun EXCEPT !.pc = "created"]]
       /\ active_deployments' = t
       /\ deployment_timers' = [status |-> "running"]

StartsPending == Cardinality({c \in Callers : calls[c].op = "start"})
RunsCreated == Cardinality({t \in RunIds : runs[t].pc # "none"})

\* start_deployment lines 33-39: cancel the stored task and await it. Awaiting a
\* task that is already done does not suspend, so the call then runs through.
start_deployment(c) ==
    /\ UNCHANGED <<masterVars, loopVars, simVars, chanVars, agentVars, utilVars>>
    /\ calls[c].op = "idle"
    /\ RunsCreated + StartsPending < MaxRuns
    /\ IF active_deployments # 0 /\ ~TaskDone(active_deployments)
       THEN /\ runs' = [runs EXCEPT ![active_deployments].must_cancel = TRUE]
            /\ calls' = [calls EXCEPT ![c] = [op |-> "start", run |-> active_deployments, ring |-> -1]]
            /\ UNCHANGED <<active_deployments, deployment_timers>>
       ELSE /\ CreateTask(runs)
            /\ UNCHANGED calls
    /\ event' = NoEvent
    /\ UNCHANGED <<deployment_rings, deployments, devices>>

\* start_deployment resumes once the awaited task has ended.
start_deployment_resume(c) ==
    /\ UNCHANGED <<masterVars, loopVars, simVars, chanVars, agentVars, utilVars>>
    /\ calls[c].op = "start"
    /\ TaskDone(calls[c].run)
    /\ CreateTask(runs)
    /\ calls' = [calls EXCEPT ![c] = NoCall]
    /\ event' = NoEvent
    /\ UNCHANGED <<deployment_rings, deployments, devices>>

\* stop_deployment lines 69-74: delete the entry, mark the timer stopped.
\* `del` raises KeyError when another call already removed the entry.
StopFinish ==
    IF active_deployments = 0
    THEN UNCHANGED <<active_deployments, deployment_timers>>
    ELSE /\ active_deployments' = 0
         /\ deployment_timers' = [deployment_timers EXCEPT !.status = "stopped"]

\* stop_deployment lines 62-67.
stop_deployment(c) ==
    /\ UNCHANGED <<masterVars, loopVars, simVars, chanVars, agentVars, utilVars>>
    /\ calls[c].op = "idle"
    /\ active_deployments # 0
    /\ IF ~TaskDone(active_deployments)
       THEN /\ runs' = [runs EXCEPT ![active_deployments].must_cancel = TRUE]
            /\ calls' = [calls EXCEPT ![c] =
                           [op |-> "stop", run |-> active_deployments,
                            ring |-> IF runs[active_deployments].pc = "sleep"
                                     THEN runs[active_deployments].ring ELSE -1]]
            /\ UNCHANGED <<active_deployments, deployment_timers>>
       ELSE /\ StopFinish
            /\ UNCHANGED <<runs, calls>>
    /\ event' = NoEvent
    /\ UNCHANGED <<deployment_rings, deployments, devices>>

stop_deployment_resume(c) ==
    /\ UNCHANGED <<masterVars, loopVars, simVars, chanVars, agentVars, utilVars>>
    /\ calls[c].op = "stop"
    /\ TaskDone(calls[c].run)
    /\ StopFinish
    /\ calls' = [calls EXCEPT ![c] = NoCall]
    /\ event' = NoEvent
    /\ UNCHANGED <<deployment_rings, deployments, devices, runs>>

\* The devices table is written by other components (ring assignment): the
\* number of devices of a ring changes between zero and non-zero.
update_device_ring(r) ==
    /\ UNCHANGED <<masterVars, loopVars, simVars, chanVars, agentVars, utilVars>>
    /\ devices' = [devices EXCEPT ![r] = 1 - @]
    /\ event' = NoEvent
    /\ UNCHANGED <<deployment_rings, deployments, active_deployments,
                   deployment_timers, runs, calls>>

SchedNext ==
    \/ \E c \in Callers : start_deployment(c)
    \/ \E c \in Callers : start_deployment_resume(c)
    \/ \E c \in Callers : stop_deployment(c)
    \/ \E c \in Callers : stop_deployment_resume(c)
    \/ \E t \in RunIds : RunDeploymentStart(t)
    \/ \E t \in RunIds, o \in GatingOutcomes, fr \in FailureReasons :
         /\ (o # "failed" => fr = "cpu exceeds threshold")
         /\ RunDeploymentGate(t, o, fr)
    \/ \E t \in RunIds : RunDeploymentCancelled(t)
    \/ \E r \in RingIds : update_device_ring(r)

\* ------------------------------------------- Part II: aws-orchestrator master
\* Handlers of the master run on one event loop.  Their only awaits are
\* _send_message -> asyncio.Queue.put, which does not suspend while the
\* receiver's queue has room, so each handler and each monitor pass is one
\* action.  Time is counted in steps of TickSeconds.

RingType == <<"canary", "dev", "stage", "prod", "unassigned">>

RingTypes == {RingType[i] : i \in 1 .. Len(RingType)}

\* One clock step; ages saturate one step above the timeout they are compared to.
TickSeconds == slave_timeout

\* The metrics of a device report: one healthy device, one with a low battery.
DeviceMetrics ==
    { [battery_level |-> 21, cpu_usage |-> 79, memory_usage |-> 84, disk_usage |-> 50],
      [battery_level |-> 20, cpu_usage |-> 79, memory_usage |-> 84, disk_usage |-> 50] }

\* Mutant of is_healthy: a battery at 20 counts as healthy.
is_healthy_from_20(device) ==
    /\ device.battery_level >= 20
    /\ device.cpu_usage < 80
    /\ device.memory_usage < 85

\* DeviceStatus.is_healthy
is_healthy(device) ==
    /\ device.battery_level > 20
    /\ device.cpu_usage < 80
    /\ device.memory_usage < 85

\* DeviceStatus.from_dict: a report without "assigned_ring" is "unassigned".
from_dict(slave_id, metrics, assigned_ring) ==
    [slave_id |-> slave_id,
     battery_level |-> metrics.battery_level,
     cpu_usage |-> metrics.cpu_usage,
     memory_usage |-> metrics.memory_usage,
     disk_usage |-> metrics.disk_usage,
     assigned_ring |-> assigned_ring]

\* ---- dicts keyed by slave_id, kept as the sequence of their entries
Has(d, k) == \E i \in 1 .. Len(d) : d[i].slave_id = k

Get(d, k) == d[CHOOSE i \in 1 .. Len(d) : d[i].slave_id = k]

\* d[k] = v: replaces the entry in place, or appends a new key
Put(d, k, v) ==
    IF Has(d, k)
    THEN [i \in 1 .. Len(d) |-> IF d[i].slave_id = k THEN v ELSE d[i]]
    ELSE Append(d, v)

\* del d[k]
Del(d, k) == SelectSeq(d, LAMBDA e : e.slave_id # k)

InSeq(x, q) == \E i \in 1 .. Len(q) : q[i] = x

\* list.remove(x): drops the first occurrence
RemoveFirst(q, x) ==
    LET i == CHOOSE j \in 1 .. Len(q) : q[j] = x /\ \A h \in 1 .. (j - 1) : q[h] # x
    IN SubSeq(q, 1, i - 1) \o SubSeq(q, i + 1, Len(q))

RECURSIVE SumLen(_, _)
SumLen(ra, i) == IF i > Len(RingType) THEN 0 ELSE Len(ra[RingType[i]]) + SumLen(ra, i + 1)

RingEntries(ra) == SumLen(ra, 1)

\* How often slave_id occurs in the ring lists.
Memberships(ra, slave_id) ==
    Cardinality({<<r, i>> \in RingTypes \X (1 .. MaxRingEntries) :
                    i <= Len(ra[r]) /\ ra[r][i] = slave_id})

NewSlave(slave_id) ==
    [slave_id |-> slave_id, status |-> "idle", since_heartbeat |-> 0, assigned_tasks |-> <<>>,
     completed_tasks |-> 0, failed_tasks |-> 0]

\* A Task: its status, assigned_to (0 for None), priority, error ("none" for
\* None) and, while it is in_progress, the seconds since started_at (-1 in
\* every other status: started_at is read only for an in_progress task, line
\* 1437).  retries is history: how often the task monitor has requeued it.
NoTask == [status |-> "none", assigned_to |-> 0, priority |-> 0, since_started |-> -1,
           error |-> "none", retries |-> 0]

MasterInit ==
    /\ slaves = <<>>
    /\ device_statuses = <<>>
    /\ ring_assignments = [r \in RingTypes |-> <<>>]
    /\ tasks = [t \in TaskIds |-> NoTask]
    /\ task_queue = <<>>
    /\ agents = {}
    /\ in_flight = {}
    /\ process_messages = "running"

\* ---- ring assignment
\* assign_slave_to_ring on the pair R = [ds |-> device_statuses, ra |-> ring_assignments]
AssignSlaveToRing(sl, R, slave_id, ring) ==
    IF ~Has(sl, slave_id)
    THEN R
    ELSE LET known == Has(R.ds, slave_id)
             old_ring == IF known THEN Get(R.ds, slave_id).assigned_ring ELSE "unassigned"
             ra1 == IF known /\ InSeq(slave_id, R.ra[old_ring])
                    THEN [R.ra EXCEPT ![old_ring] = RemoveFirst(@, slave_id)]
                    ELSE R.ra
             ra2 == [ra1 EXCEPT ![ring] = Append(@, slave_id)]
             ds2 == IF known
                    THEN Put(R.ds, slave_id, [Get(R.ds, slave_id) EXCEPT !.assigned_ring = ring])
                    ELSE R.ds
         IN [ds |-> ds2, ra |-> ra2]

\* min(ring_counts, key=ring_counts.get): the first of canary, dev, stage, prod
\* with the fewest members
MinRing(ra) ==
    LET i == CHOOSE j \in 1 .. 4 :
                 /\ \A h \in 1 .. 4 : Len(ra[RingType[j]]) <= Len(ra[RingType[h]])
                 /\ \A h \in 1 .. (j - 1) : Len(ra[RingType[h]]) > Len(ra[RingType[j]])
    IN RingType[i]

\* _auto_assign_ring; pick is random.choice([CANARY, DEV])
AutoAssignRing(sl, R, slave_id, pick) ==
    IF ~Has(R.ds, slave_id)
    THEN R
    ELSE LET device == Get(R.ds, slave_id)
             assigned_ring == IF is_healthy(device) THEN MinRing(R.ra) ELSE pick
         IN AssignSlaveToRing(sl, R, slave_id, assigned_ring)

UnhealthyRings == {"canary", "dev"}

\* available_rings of the rebalancer's random reassignment
AvailableRings(device) ==
    {"canary", "dev", "stage"} \cup (IF is_healthy(device) THEN {"prod"} ELSE {})

\* One rebalancer pass over device_statuses.items(), from entry i on; ch[s]
\* holds the random draws made for slave s.
RECURSIVE RebalanceFrom(_, _, _, _)
RebalanceFrom(i, sl, R, ch) ==
    IF i > Len(R.ds)
    THEN R
    ELSE LET device == R.ds[i]
             slave_id == device.slave_id
             current_ring == device.assigned_ring
             c == ch[slave_id]
             R1 == IF current_ring = "unassigned"
                   THEN AutoAssignRing(sl, R, slave_id, c.pick)
                   ELSE IF ~is_healthy(device) /\ current_ring = "prod"
                   THEN AssignSlaveToRing(sl, R, slave_id, c.pick)
                   ELSE IF c.coin /\ c.new_ring \in AvailableRings(device)
                           /\ c.new_ring # current_ring
                   THEN AssignSlaveToRing(sl, R, slave_id, c.new_ring)
                   ELSE R
         IN RebalanceFrom(i + 1, sl, R1, ch)

\* The draws of one device: the ring drawn for an unhealthy device, whether
\* random.random() < 0.1, and the ring drawn then.
RebalanceDraws ==
    {d \in [pick : UnhealthyRings, coin : BOOLEAN, new_ring : {"canary", "dev", "stage", "prod"}] :
        ~d.coin => d.new_ring = "canary"}

\* The draws of a pass for an id that has no device status: none is made.
NoDraw == [pick |-> "canary", coin |-> FALSE, new_ring |-> "canary"]

\* ---- tasks
\* task_queue.sort(key=priority, reverse=True): a stable sort, highest first
RECURSIVE InsertByPriority(_, _, _)
InsertByPriority(sorted, t, tk) ==
    IF sorted = <<>> THEN <<t>>
    ELSE IF tk[Head(sorted)].priority >= tk[t].priority
         THEN <<Head(sorted)>> \o InsertByPriority(Tail(sorted), t, tk)
         ELSE <<t>> \o sorted

RECURSIVE SortByPriority(_, _)
SortByPriority(q, tk) ==
    IF q = <<>> THEN <<>>
    ELSE InsertByPriority(SortByPriority(SubSeq(q, 1, Len(q) - 1), tk), q[Len(q)], tk)

\* _assign_tasks on M = [slaves, tasks, task_queue, in_flight, sent], from entry i of
\* slaves on: every slave that is idle takes the head of the queue and is sent
\* a TASK_ASSIGNMENT (M.sent collects the messages of the step).
RECURSIVE AssignTasksFrom(_, _)
AssignTasksFrom(i, M) ==
    IF i > Len(M.slaves) \/ M.task_queue = <<>>
    THEN M
    ELSE IF M.slaves[i].status # "idle"
    THEN AssignTasksFrom(i + 1, M)
    ELSE LET task == Head(M.task_queue)
             slave_id == M.slaves[i].slave_id
         IN AssignTasksFrom(i + 1,
               [M EXCEPT !.slaves[i].status = "busy",
                         !.slaves[i].assigned_tasks = Append(@, task),
                         !.tasks[task].assigned_to = slave_id,
                         !.tasks[task].status = "in_progress",
                         !.tasks[task].since_started = 0,
                         !.task_queue = Tail(@),
                         !.in_flight = @ \cup {<<slave_id, task>>},
                         !.sent = @ \cup {<<"task_assignment", slave_id, task>>}])

\* Mutant of AssignTasks: no task is handed out.
AssignNothing(M) == M

AssignTasks(M) == AssignTasksFrom(1, M)

\* The lists of M stay within the model's caps.
WithinCaps(M) ==
    /\ Len(M.task_queue) <= MaxQueue
    /\ \A i \in 1 .. Len(M.slaves) : Len(M.slaves[i].assigned_tasks) <= MaxAssigned

SetMaster(M) ==
    /\ WithinCaps(M)
    /\ slaves' = M.slaves
    /\ tasks' = M.tasks
    /\ task_queue' = M.task_queue
    /\ in_flight' = M.in_flight

SetRings(R) ==
    /\ RingEntries(R.ra) <= MaxRingEntries
    /\ device_statuses' = R.ds
    /\ ring_assignments' = R.ra

\* Mutant of ReassignTask: the task keeps its assignee.
ReassignTaskKeepsAgent(task) == [task EXCEPT !.status = "pending", !.since_started = -1]

\* _remove_slave lines 1466-1467
ReassignTask(task) == [task EXCEPT !.status = "pending", !.assigned_to = 0, !.since_started = -1]

\* _remove_slave lines 1463-1469: the loop over assigned_tasks, from entry i on
RECURSIVE ReassignFrom(_, _, _)
ReassignFrom(i, assigned_tasks, M) ==
    IF i > Len(assigned_tasks)
    THEN M
    ELSE LET task_id == assigned_tasks[i]
         IN ReassignFrom(i + 1, assigned_tasks,
               [M EXCEPT !.tasks[task_id] = ReassignTask(@),
                         !.task_queue = Append(@, task_id)])

\* _remove_slave
RemoveSlave(M, slave_id) ==
    IF ~Has(M.slaves, slave_id)
    THEN M
    ELSE LET M1 == ReassignFrom(1, Get(M.slaves, slave_id).assigned_tasks, M)
         IN [M1 EXCEPT !.slaves = Del(@, slave_id)]

\* _heartbeat_monitor line 1418
TimedOut(info) == info.since_heartbeat > slave_timeout

\* _heartbeat_monitor lines 1415-1419
dead_slaves(sl) ==
    LET dead == SelectSeq(sl, TimedOut)
    IN [i \in 1 .. Len(dead) |-> dead[i].slave_id]

RECURSIVE RemoveAll(_, _, _)
RemoveAll(i, dead, M) ==
    IF i > Len(dead) THEN M ELSE RemoveAll(i + 1, dead, RemoveSlave(M, dead[i]))

Master == [slaves |-> slaves, tasks |-> tasks, task_queue |-> task_queue,
           in_flight |-> in_flight, sent |-> {}]

Rings == [ds |-> device_statuses, ra |-> ring_assignments]

\* History of a heartbeat monitor pass: the slaves it found timed out and the
\* tasks that were in_progress on them.
MonitorEvent ==
    LET removed == {slaves[i].slave_id : i \in {j \in 1 .. Len(slaves) : TimedOut(slaves[j])}}
    IN [NoEvent EXCEPT !.kind = "heartbeat_monitor",
                       !.removed = removed,
                       !.requeued = {t \in TaskIds : tasks[t].status = "in_progress"
                                                      /\ tasks[t].assigned_to \in removed}]

\* register_slave: REGISTRATION message, or a direct call
register_slave(slave_id, metrics, assigned_ring, pick) ==
    /\ ~Has(slaves, slave_id)
    /\ LET ds1 == Put(device_statuses, slave_id, from_dict(slave_id, metrics, assigned_ring))
           sl1 == Append(slaves, NewSlave(slave_id))
       IN /\ slaves' = sl1
          /\ SetRings(AutoAssignRing(sl1, [ds |-> ds1, ra |-> ring_assignments], slave_id, pick))
    /\ event' = NoEvent
    /\ UNCHANGED <<in_flight, tasks, task_queue, agents, process_messages, schedVars, simVars, chanVars, agentVars, utilVars>>

\* _update_device_status: DEVICE_STATUS_UPDATE message
update_device_status(slave_id, metrics, assigned_ring) ==
    /\ device_statuses' = Put(device_statuses, slave_id, from_dict(slave_id, metrics, assigned_ring))
    /\ event' = NoEvent
    /\ UNCHANGED <<in_flight, slaves, ring_assignments, tasks, task_queue, agents, process_messages, schedVars, simVars, chanVars, agentVars, utilVars>>

\* _update_heartbeat: HEARTBEAT message, with or without a device status
update_heartbeat(slave_id, with_status, metrics, assigned_ring) ==
    /\ Has(slaves, slave_id)
    /\ slaves' = Put(slaves, slave_id, [Get(slaves, slave_id) EXCEPT !.since_heartbeat = 0])
    /\ device_statuses' =
          IF with_status
          THEN Put(device_statuses, slave_id, from_dict(slave_id, metrics, assigned_ring))
          ELSE device_statuses
    /\ event' = NoEvent
    /\ UNCHANGED <<in_flight, ring_assignments, tasks, task_queue, agents, process_messages, schedVars, simVars, chanVars, agentVars, utilVars>>

\* spawn_agent_random
spawn_agent_random(slave_id) ==
    /\ slave_id \notin agents
    /\ agents' = agents \cup {slave_id}
    /\ event' = NoEvent
    /\ UNCHANGED <<in_flight, slaves, device_statuses, ring_assignments, tasks, task_queue, process_messages, schedVars, simVars, chanVars, agentVars, utilVars>>

\* _handle_heartbeat: a heartbeat published on the "heartbeat" topic
handle_heartbeat(slave_id) ==
    /\ Has(slaves, slave_id) \/ slave_id \in agents
    /\ slaves' = IF Has(slaves, slave_id)
                 THEN Put(slaves, slave_id, [Get(slaves, slave_id) EXCEPT !.since_heartbeat = 0])
                 ELSE Append(slaves, NewSlave(slave_id))
    /\ event' = NoEvent
    /\ UNCHANGED <<in_flight, device_statuses, ring_assignments, tasks, task_queue, agents, process_messages, schedVars, simVars, chanVars, agentVars, utilVars>>

\* assign_slave_to_ring called directly
assign_slave_to_ring(slave_id, ring) ==
    /\ Has(slaves, slave_id)
    /\ SetRings(AssignSlaveToRing(slaves, Rings, slave_id, ring))
    /\ event' = NoEvent
    /\ UNCHANGED <<in_flight, slaves, tasks, task_queue, agents, process_messages, schedVars, simVars, chanVars, agentVars, utilVars>>

\* _ring_rebalancer: one pass of the loop body
ring_rebalancer(ch) ==
    /\ device_statuses # <<>>
    /\ SetRings(RebalanceFrom(1, slaves, Rings, ch))
    /\ event' = [NoEvent EXCEPT !.kind = "ring_rebalancer"]
    /\ UNCHANGED <<in_flight, slaves, tasks, task_queue, agents, process_messages, schedVars, simVars, chanVars, agentVars, utilVars>>

\* submit_task
submit_task(priority) ==
    /\ \E t \in TaskIds : tasks[t].status = "none"
    /\ LET task_id == CHOOSE t \in TaskIds :
                          tasks[t].status = "none" /\ \A u \in TaskIds : tasks[u].status = "none" => t <= u
           tk1 == [tasks EXCEPT ![task_id] = [NoTask EXCEPT !.status = "pending", !.priority = priority]]
           q1 == SortByPriority(Append(task_queue, task_id), tk1)
           M == AssignTasks([Master EXCEPT !.tasks = tk1, !.task_queue = q1])
       IN /\ SetMaster(M)
          /\ event' = [NoEvent EXCEPT !.kind = "submit_task", !.task = task_id, !.sent = M.sent]
    /\ UNCHANGED <<device_statuses, ring_assignments, agents, process_messages, schedVars, simVars, chanVars, agentVars, utilVars>>

\* SlaveAgent._execute_task and the except branch of _handle_task_assignment:
\* the (result, error) of the TASK_RESULT the agent sends for a task whose
\* type it has, or has not, a handler for ("none" for None).
NoHandlerError == "No handler registered for task type"

execute_task(has_handler) ==
    IF has_handler
    THEN [result |-> "result", error |-> "none"]
    ELSE [result |-> "none", error |-> NoHandlerError]

\* Mutant of AfterHandler: an exception of a handler leaves the loop.
AfterHandlerUncaught(raised) == IF raised THEN "crashed" ELSE "running"

\* _process_messages lines 1146-1157: the handler runs inside try / except
\* Exception within the while loop, so the loop goes on whether it raised or not.
AfterHandler(raised) == "running"

\* _handle_task_result: TASK_RESULT message from slave_id about task_id.  A
\* task id that is not known is logged and dropped.  The slave entry is read
\* only after the task's status is written: a sender that is not registered
\* raises KeyError at line 1241 / 1246, which _process_messages catches.
handle_task_result(slave_id, task_id, payload) ==
    /\ process_messages = "running"
    /\ LET failed == payload.error # "none"
           tk1 == [tasks EXCEPT ![task_id].status = IF failed THEN "failed" ELSE "completed",
                                ![task_id].error = IF failed THEN payload.error ELSE @,
                                ![task_id].since_started = -1]
           ev == [NoEvent EXCEPT !.kind = "task_result", !.sender = slave_id, !.task = task_id,
                                 !.outcome = payload.error]
           answered == in_flight \ {<<slave_id, task_id>>}
       IN IF tasks[task_id].status = "none"
          THEN /\ event' = [ev EXCEPT !.reason = "unknown task"]
               /\ in_flight' = answered
               /\ process_messages' = AfterHandler(FALSE)
               /\ UNCHANGED <<slaves, tasks, task_queue>>
          ELSE IF ~Has(slaves, slave_id)
          THEN /\ tasks' = tk1
               /\ event' = [ev EXCEPT !.raised = TRUE]
               /\ in_flight' = answered
               /\ process_messages' = AfterHandler(TRUE)
               /\ UNCHANGED <<slaves, task_queue>>
          ELSE LET info == Get(slaves, slave_id)
                   info1 == [info EXCEPT
                               !.failed_tasks = IF failed THEN @ + 1 ELSE @,
                               !.completed_tasks = IF failed THEN @ ELSE @ + 1,
                               !.status = "idle",
                               !.assigned_tasks = IF InSeq(task_id, @) THEN RemoveFirst(@, task_id) ELSE @]
                   M == AssignTasks([Master EXCEPT !.slaves = Put(slaves, slave_id, info1),
                                                   !.tasks = tk1,
                                                   !.in_flight = answered])
               IN /\ info.completed_tasks + info.failed_tasks < MaxResults
                  /\ SetMaster(M)
                  /\ event' = [ev EXCEPT !.sent = M.sent]
                  /\ process_messages' = AfterHandler(FALSE)
    /\ UNCHANGED <<device_statuses, ring_assignments, agents, schedVars, simVars, chanVars, agentVars, utilVars>>

\* _handle_slave_error: ERROR message; a sender that is not registered is
\* only logged
handle_slave_error(slave_id) ==
    /\ process_messages = "running"
    /\ slaves' = IF Has(slaves, slave_id)
                 THEN Put(slaves, slave_id, [Get(slaves, slave_id) EXCEPT !.status = "error"])
                 ELSE slaves
    /\ event' = [NoEvent EXCEPT !.kind = "slave_error", !.sender = slave_id]
    /\ process_messages' = AfterHandler(FALSE)
    /\ UNCHANGED <<in_flight, device_statuses, ring_assignments, tasks, task_queue, agents, schedVars, simVars, chanVars, agentVars, utilVars>>

\* _update_device_status with a report DeviceStatus.from_dict cannot parse (a
\* required key is missing, or the ring name is not a RingType): the
\* exception is caught at lines 1299-1300 and nothing is stored.
update_device_status_unparseable(slave_id) ==
    /\ process_messages = "running"
    /\ event' = [NoEvent EXCEPT !.kind = "device_status", !.sender = slave_id, !.reason = "unparseable"]
    /\ process_messages' = AfterHandler(FALSE)
    /\ UNCHANGED <<masterVars, in_flight, schedVars, simVars, chanVars, agentVars, utilVars>>

\* _heartbeat_monitor: one pass that finds a timed-out slave (a pass that
\* finds none changes nothing)
heartbeat_monitor ==
    /\ dead_slaves(slaves) # <<>>
    /\ SetMaster(RemoveAll(1, dead_slaves(slaves), Master))
    /\ event' = MonitorEvent
    /\ UNCHANGED <<device_statuses, ring_assignments, agents, process_messages, schedVars, simVars, chanVars, agentVars, utilVars>>

\* _task_monitor lines 1436-1448 for one task
MonitorTask(M, task_id) ==
    LET task == M.tasks[task_id]
    IN IF task.status = "in_progress" /\ task.since_started > task_timeout
       THEN IF task.priority < task_retry_limit
            THEN [M EXCEPT !.tasks[task_id].status = "pending",
                           !.tasks[task_id].error = "Task timeout",
                           !.tasks[task_id].priority = @ + 1,
                           !.tasks[task_id].retries = @ + 1,
                           !.tasks[task_id].since_started = -1,
                           !.task_queue = Append(@, task_id)]
            ELSE [M EXCEPT !.tasks[task_id].status = "failed",
                           !.tasks[task_id].error = "Task timeout",
                           !.tasks[task_id].since_started = -1]
       ELSE M

RECURSIVE MonitorTasksFrom(_, _)
MonitorTasksFrom(task_id, M) ==
    IF task_id > MaxTasks THEN M ELSE MonitorTasksFrom(task_id + 1, MonitorTask(M, task_id))

\* _task_monitor: one pass that finds a timed-out task
task_monitor ==
    /\ MonitorTasksFrom(1, Master) # Master
    /\ SetMaster(MonitorTasksFrom(1, Master))
    /\ event' = [NoEvent EXCEPT !.kind = "task_monitor"]
    /\ UNCHANGED <<device_statuses, ring_assignments, agents, process_messages, schedVars, simVars, chanVars, agentVars, utilVars>>

\* get_cluster_status: the counts it reports
get_cluster_status ==
    LET count(status) == Cardinality({t \in TaskIds : tasks[t].status = status})
        slaves_in(status) == Cardinality({i \in 1 .. Len(slaves) : slaves[i].status = status})
    IN [running |-> process_messages = "running",
        total_slaves |-> Len(slaves),
        active_slaves |-> slaves_in("busy"),
        idle_slaves |-> slaves_in("idle"),
        total_tasks |-> Cardinality({t \in TaskIds : tasks[t].status # "none"}),
        pending_tasks |-> count("pending"),
        in_progress_tasks |-> count("in_progress"),
        completed_tasks |-> count("completed"),
        failed_tasks |-> count("failed")]

Older(age, limit) == IF age + TickSeconds > limit + TickSeconds THEN age ELSE age + TickSeconds

\* The clock advances by TickSeconds: every datetime.now() read afterwards is
\* later.  A suspended _assign_tasks whose channel has room again goes on first.
MasterTick ==
    /\ ~(assign_call.pc = "send" /\ Len(queues[assign_call.slave_id].queue) < QueueMaxsize)
    /\ \/ \E i \in 1 .. Len(slaves) : slaves[i].since_heartbeat <= slave_timeout
       \/ \E t \in TaskIds : tasks[t].since_started >= 0 /\ tasks[t].since_started <= task_timeout
    /\ slaves' = [i \in 1 .. Len(slaves) |->
                     [slaves[i] EXCEPT !.since_heartbeat = Older(@, slave_timeout)]]
    /\ tasks' = [t \in TaskIds |->
                     IF tasks[t].since_started >= 0
                     THEN [tasks[t] EXCEPT !.since_started = Older(@, task_timeout)]
                     ELSE tasks[t]]
    /\ event' = NoEvent
    /\ UNCHANGED <<in_flight, device_statuses, ring_assignments, task_queue, agents, process_messages, schedVars, simVars, chanVars, agentVars, utilVars>>

\* ---------------------------------- Part III: simulator DeploymentManager
\* The manager works on the same deployments / deployment_rings tables.  Each
\* config_loader update runs in the executor and commits on its own; the
\* coroutine that awaits it is suspended meanwhile, so a step ends after each
\* database write.

DbOutcomes == {"ok", "fallback", "error"}

SimInit ==
    /\ manager = [deployment_active |-> FALSE, current_ring_index |-> 0, ring_start_time |-> -1]
    /\ watcher = "idle"
    /\ api = "idle"

\* _update_ring_status_sync; update_ring_status swallows a failure
update_ring_status(dr, ring_id, status, ok) ==
    IF ok THEN [dr EXCEPT ![ring_id].status = status] ELSE dr

\* _update_deployment_status_sync lines 372-379, and the fallback of
\* complete_deployment lines 191-195: every ring that is not Failed
CompleteRings(dr) ==
    [r \in RingIds |-> IF dr[r].status # "Failed" THEN [dr[r] EXCEPT !.status = "Completed"] ELSE dr[r]]

\* DeploymentManager.start_deployment
dm_start_deployment(outcome) ==
    /\ manager' = [deployment_active |-> TRUE, current_ring_index |-> 0, ring_start_time |-> 0]
    /\ deployments' = IF outcome = "ok" THEN "In Progress" ELSE deployments
    /\ deployment_rings' = IF outcome = "fallback"
                           THEN [deployment_rings EXCEPT ![0].status = "In Progress"]
                           ELSE deployment_rings
    /\ event' = NoEvent
    /\ UNCHANGED <<devices, active_deployments, deployment_timers, runs, calls,
                   watcher, api, masterVars, loopVars, chanVars, agentVars, utilVars>>

\* _progress_rings lines 723-755: the current ring is marked Completed
progress_rings(ok) ==
    /\ watcher = "idle"
    /\ manager.deployment_active
    /\ manager.ring_start_time >= 0
    /\ manager.ring_start_time >= ring_completion_time
    /\ manager.current_ring_index < NumRings
    /\ deployment_rings' = update_ring_status(deployment_rings, manager.current_ring_index, "Completed", ok)
    /\ watcher' = "ring_completed"
    /\ event' = NoEvent
    /\ UNCHANGED <<deployments, devices, active_deployments, deployment_timers, runs, calls,
                   manager, api, masterVars, loopVars, chanVars, agentVars, utilVars>>

\* _progress_rings lines 762-798: on to the next ring, or to complete_deployment
progress_next(ok) ==
    /\ watcher = "ring_completed"
    /\ LET next == manager.current_ring_index + 1
       IN IF next < NumRings
          THEN /\ deployment_rings' = update_ring_status(deployment_rings, next, "In Progress", ok)
               /\ manager' = [manager EXCEPT !.current_ring_index = next, !.ring_start_time = 0]
               /\ watcher' = "idle"
          ELSE /\ manager' = [manager EXCEPT !.current_ring_index = next]
               /\ watcher' = "completing"
               /\ UNCHANGED deployment_rings
    /\ event' = NoEvent
    /\ UNCHANGED <<deployments, devices, active_deployments, deployment_timers, runs, calls,
                   api, masterVars, loopVars, chanVars, agentVars, utilVars>>

\* complete_deployment lines 176-203: the status update and its fallback
CompleteUpdate(outcome) ==
    /\ deployments' = IF outcome = "error" THEN deployments ELSE "Completed"
    /\ deployment_rings' = IF outcome = "error" THEN deployment_rings
                           ELSE CompleteRings(deployment_rings)

\* complete_deployment lines 205-216
CompleteReset == manager' = [manager EXCEPT !.deployment_active = FALSE]

\* complete_deployment called by _progress_rings after the last ring
watcher_complete_update(outcome) ==
    /\ watcher = "completing"
    /\ CompleteUpdate(outcome)
    /\ watcher' = "resetting"
    /\ event' = NoEvent
    /\ UNCHANGED <<devices, active_deployments, deployment_timers, runs, calls,
                   manager, api, masterVars, loopVars, chanVars, agentVars, utilVars>>

watcher_complete_reset ==
    /\ watcher = "resetting"
    /\ CompleteReset
    /\ watcher' = "idle"
    /\ event' = NoEvent
    /\ UNCHANGED <<deployment_rings, deployments, devices, active_deployments,
                   deployment_timers, runs, calls, api, masterVars, loopVars, chanVars, agentVars, utilVars>>

\* MasterOrchestrator.complete_deployment called from outside
api_complete_update(outcome) ==
    /\ api = "idle"
    /\ CompleteUpdate(outcome)
    /\ api' = "resetting"
    /\ event' = NoEvent
    /\ UNCHANGED <<devices, active_deployments, deployment_timers, runs, calls,
                   manager, watcher, masterVars, loopVars, chanVars, agentVars, utilVars>>

api_complete_reset ==
    /\ api = "resetting"
    /\ CompleteReset
    /\ api' = "idle"
    /\ event' = NoEvent
    /\ UNCHANGED <<deployment_rings, deployments, devices, active_deployments,
                   deployment_timers, runs, calls, watcher, masterVars, loopVars, chanVars, agentVars, utilVars>>

\* The clock advances by TickSeconds.
SimTick ==
    /\ manager.ring_start_time >= 0
    /\ manager.ring_start_time < ring_completion_time
    /\ manager' = [manager EXCEPT !.ring_start_time = @ + TickSeconds]
    /\ event' = NoEvent
    /\ UNCHANGED <<deployment_rings, deployments, devices, active_deployments,
                   deployment_timers, runs, calls, watcher, api, masterVars, loopVars, chanVars, agentVars, utilVars>>

\* ------------------------------- Part IX: the simulator's deployment watcher
\* run_deployment_watcher is one coroutine: each loop checks the deployments
\* table, monitors the active deployment and sleeps
\* deployment_monitor_interval.  Its awaits run database writes in the
\* executor; the writes succeed here and nothing else writes the rows of a
\* deployment that has been started, so a step of the loop is one action.
\* Rows get the status 'Started' from outside (the server).

DeploymentIds == 1 .. MaxDeployments

NoDeployment == [status |-> "Not Started", rings |-> [r \in RingIds |-> "Not Started"]]

WatchInit ==
    /\ deployment_table = [d \in DeploymentIds |-> NoDeployment]
    /\ processed_deployments = {}
    /\ deployment_manager = [deployment_active |-> FALSE, deployment_id |-> 0,
                             current_ring_index |-> 0, ring_start_time |-> -1]
    /\ watcher_loop = "check"
    /\ starts = [d \in DeploymentIds |-> 0]

\* W = [table, processed, manager, starts]: the state a watcher step works on
Watch == [table |-> deployment_table, processed |-> processed_deployments,
          manager |-> deployment_manager, starts |-> starts]

SetWatch(W) ==
    /\ deployment_table' = W.table
    /\ processed_deployments' = W.processed
    /\ deployment_manager' = W.manager
    /\ starts' = W.starts

\* DeploymentManager.start_deployment lines 59-144
StartDeployment(W, deployment_id) ==
    [W EXCEPT !.manager = [deployment_active |-> TRUE, deployment_id |-> deployment_id,
                           current_ring_index |-> 0, ring_start_time |-> 0],
              !.table[deployment_id].status = "In Progress",
              !.table[deployment_id].rings[0] = "In Progress",
              !.starts[deployment_id] = IF @ < 2 THEN @ + 1 ELSE @]

\* _check_deployment_table lines 620-626: the rows with status 'Started',
\* ORDER BY created_at DESC (a row with a larger id was created later)
StartedRows(table) ==
    LET found == {d \in DeploymentIds : table[d].status = "Started"}
        Rank(d) == Cardinality({e \in found : e > d}) + 1
    IN [i \in 1 .. Cardinality(found) |-> CHOOSE d \in found : Rank(d) = i]

\* _check_deployment_table lines 631-647: the loop over the fetched rows
RECURSIVE CheckFrom(_, _, _)
CheckFrom(i, rows, W) ==
    IF i > Len(rows)
    THEN W
    ELSE IF rows[i] \notin W.processed
    THEN CheckFrom(i + 1, rows,
                   StartDeployment([W EXCEPT !.processed = @ \cup {rows[i]}], rows[i]))
    ELSE CheckFrom(i + 1, rows, W)

\* complete_deployment lines 176-218
CompleteDeployment(W, deployment_id) ==
    [W EXCEPT !.table[deployment_id].status = "Completed",
              !.table[deployment_id].rings =
                  [r \in RingIds |-> IF @[r] # "Failed" THEN "Completed" ELSE @[r]],
              !.manager.deployment_active = FALSE,
              !.processed = @ \ {deployment_id},
              !.starts[deployment_id] = 0]

\* _progress_rings lines 723-808
ProgressRings(W) ==
    LET m == W.manager
        d == m.deployment_id
        i == m.current_ring_index
    IN IF m.ring_start_time < ring_completion_time \/ i >= NumRings
       THEN W
       ELSE LET W1 == [W EXCEPT !.table[d].rings[i] = "Completed",
                                !.manager.current_ring_index = i + 1]
            IN IF i + 1 < NumRings
               THEN [W1 EXCEPT !.table[d].rings[i + 1] = "In Progress",
                               !.manager.ring_start_time = 0]
               ELSE CompleteDeployment(W1, d)

\* A row is given the status 'Started' from outside.
mark_started(d) ==
    /\ deployment_table[d].status = "Not Started"
    /\ deployment_table' = [deployment_table EXCEPT ![d].status = "Started"]
    /\ event' = NoEvent
    /\ UNCHANGED <<processed_deployments, deployment_manager, watcher_loop, starts,
                   db_write, wire, schedVars, masterVars, loopVars, simVars, chanVars, agentVars>>

\* run_deployment_watcher step 2: _check_deployment_table
check_deployment_table ==
    /\ watcher_loop = "check"
    /\ SetWatch(CheckFrom(1, StartedRows(deployment_table), Watch))
    /\ watcher_loop' = "monitor"
    /\ event' = NoEvent
    /\ UNCHANGED <<db_write, wire, schedVars, masterVars, loopVars, simVars, chanVars, agentVars>>

\* run_deployment_watcher step 3: _monitor_deployment_progress for the active
\* deployment
monitor_deployment_progress ==
    /\ watcher_loop = "monitor"
    /\ IF deployment_manager.deployment_active /\ deployment_manager.deployment_id # 0
       THEN SetWatch(ProgressRings(Watch))
       ELSE UNCHANGED <<deployment_table, processed_deployments, deployment_manager, starts>>
    /\ watcher_loop' = "sleep"
    /\ event' = NoEvent
    /\ UNCHANGED <<db_write, wire, schedVars, masterVars, loopVars, simVars, chanVars, agentVars>>

\* run_deployment_watcher step 4: asyncio.sleep(deployment_monitor_interval);
\* the age of ring_start_time stops counting once it has passed
\* ring_completion_time.
watcher_sleep ==
    /\ watcher_loop = "sleep"
    /\ deployment_manager' =
          [deployment_manager EXCEPT !.ring_start_time =
              IF @ >= 0 /\ @ < ring_completion_time THEN @ + deployment_monitor_interval ELSE @]
    /\ watcher_loop' = "check"
    /\ event' = NoEvent
    /\ UNCHANGED <<deployment_table, processed_deployments, starts,
                   db_write, wire, schedVars, masterVars, loopVars, simVars, chanVars, agentVars>>

\* ---------------------------------- Part IV: InMemoryQueue channels
\* A channel is an asyncio.Queue(maxsize) with the counters of _stats.  A call
\* of send or receive that has to wait is suspended inside queue.put / queue.get
\* and resumed by a later step.

Senders == 1 .. MaxSenders

Payloads == [type : {"message"}, task : 1 .. MaxPayloads, receiver_id : SlaveIds, ring : {"none"}]

\* InMemoryQueue.__init__
NewQueue == [queue |-> <<>>, sent |-> 0, received |-> 0, dropped |-> 0]

NoSend == [pc |-> "idle", to |-> 0, message |-> NoMessage]

NoReceive == [pc |-> "idle", timeout |-> 0, waited |-> 0]

NoAssign == [pc |-> "idle", idle_slaves |-> <<>>, i |-> 0, slave_id |-> 0, task |-> 0]

ChanInit ==
    /\ queues = [s \in SlaveIds |-> NewQueue]
    /\ send_calls = [c \in Senders |-> NoSend]
    /\ receive_calls = [s \in SlaveIds |-> NoReceive]
    /\ assign_call = NoAssign

\* asyncio.Queue.full()
full(ch) == Len(ch.queue) >= QueueMaxsize

\* send lines 47-50 once queue.put has gone through
Sent(ch, message) == [ch EXCEPT !.queue = Append(@, message), !.sent = @ + 1]

\* Mutant of Received: the newest message is taken.
ReceivedNewest(ch) == [ch EXCEPT !.queue = SubSeq(@, 1, Len(@) - 1), !.received = @ + 1]

\* receive lines 66-68 once queue.get has gone through
Received(ch) == [ch EXCEPT !.queue = Tail(@), !.received = @ + 1]

\* InMemoryQueue.send: await queue.put(message) returns at once when the queue
\* has room and suspends the caller while it is full; put never raises
\* QueueFull, so the except branch (dropped += 1, return False) is not taken.
send(c, to, message) ==
    /\ send_calls[c].pc = "idle"
    /\ queues[to].sent + Cardinality({d \in Senders : send_calls[d].pc = "put" /\ send_calls[d].to = to})
          < MaxSent
    /\ IF full(queues[to])
       THEN /\ send_calls' = [send_calls EXCEPT ![c] = [pc |-> "put", to |-> to, message |-> message]]
            /\ event' = [NoEvent EXCEPT !.kind = "send", !.sender = c, !.channel = to,
                                        !.message = message, !.outcome = "suspended"]
            /\ UNCHANGED queues
       ELSE /\ queues' = [queues EXCEPT ![to] = Sent(@, message)]
            /\ event' = [NoEvent EXCEPT !.kind = "send", !.sender = c, !.channel = to,
                                        !.message = message, !.outcome = "True"]
            /\ UNCHANGED send_calls
    /\ UNCHANGED <<receive_calls, assign_call, schedVars, masterVars, loopVars, simVars, agentVars, utilVars>>

\* send resumed: the queue has room again, put goes through and send returns True
send_resume(c) ==
    /\ send_calls[c].pc = "put"
    /\ ~full(queues[send_calls[c].to])
    /\ queues' = [queues EXCEPT ![send_calls[c].to] = Sent(@, send_calls[c].message)]
    /\ send_calls' = [send_calls EXCEPT ![c] = NoSend]
    /\ event' = [NoEvent EXCEPT !.kind = "send_resume", !.sender = c, !.channel = send_calls[c].to,
                                !.message = send_calls[c].message, !.outcome = "True"]
    /\ UNCHANGED <<receive_calls, assign_call, schedVars, masterVars, loopVars, simVars, agentVars, utilVars>>

\* InMemoryQueue.receive(timeout): "if timeout:" takes wait_for only for a
\* timeout that is truthy; with timeout 0 the call is a plain queue.get().
receive(s, timeout) ==
    /\ receive_calls[s].pc = "idle"
    /\ IF queues[s].queue # <<>>
       THEN /\ queues' = [queues EXCEPT ![s] = Received(@)]
            /\ event' = [NoEvent EXCEPT !.kind = "receive", !.channel = s,
                                        !.message = Head(queues[s].queue), !.outcome = "message"]
            /\ UNCHANGED receive_calls
       ELSE /\ receive_calls' = [receive_calls EXCEPT ![s] = [pc |-> "get", timeout |-> timeout, waited |-> 0]]
            /\ event' = [NoEvent EXCEPT !.kind = "receive", !.channel = s, !.outcome = "suspended"]
            /\ UNCHANGED queues
    /\ UNCHANGED <<send_calls, assign_call, schedVars, masterVars, loopVars, simVars, agentVars, utilVars>>

\* receive resumed by a message: queue.get returns the head of the queue
receive_resume(s) ==
    /\ receive_calls[s].pc = "get"
    /\ queues[s].queue # <<>>
    /\ queues' = [queues EXCEPT ![s] = Received(@)]
    /\ receive_calls' = [receive_calls EXCEPT ![s] = NoReceive]
    /\ event' = [NoEvent EXCEPT !.kind = "receive_resume", !.channel = s,
                                !.message = Head(queues[s].queue), !.outcome = "message"]
    /\ UNCHANGED <<send_calls, assign_call, schedVars, masterVars, loopVars, simVars, agentVars, utilVars>>

\* receive resumed by wait_for's timeout: asyncio.TimeoutError, return None
receive_timeout(s) ==
    /\ receive_calls[s].pc = "get"
    /\ receive_calls[s].timeout # 0
    /\ receive_calls[s].waited >= receive_calls[s].timeout
    /\ queues[s].queue = <<>>
    /\ receive_calls' = [receive_calls EXCEPT ![s] = NoReceive]
    /\ event' = [NoEvent EXCEPT !.kind = "receive_timeout", !.channel = s, !.outcome = "None"]
    /\ UNCHANGED <<queues, send_calls, assign_call, schedVars, masterVars, loopVars, simVars, agentVars, utilVars>>

\* QueueManager.send_message: the queue is the one of message.receiver_id
send_message(c, message) == send(c, message.receiver_id, message)

\* QueueManager.receive_message: the queue is the one of agent_id
receive_message(agent_id, timeout) == receive(agent_id, timeout)

\* One second passes for the suspended receive calls.  A call that can go on
\* (a message is there, or its wait_for has expired) goes on first.
QueueTick ==
    /\ \E s \in SlaveIds : receive_calls[s].pc = "get" /\ receive_calls[s].waited <= MaxTimeout
    /\ \A s \in SlaveIds :
          receive_calls[s].pc = "get" =>
             /\ queues[s].queue = <<>>
             /\ receive_calls[s].timeout # 0 => receive_calls[s].waited < receive_calls[s].timeout
    /\ receive_calls' = [s \in SlaveIds |->
                            IF receive_calls[s].pc = "get" /\ receive_calls[s].waited <= MaxTimeout
                            THEN [receive_calls[s] EXCEPT !.waited = @ + 1]
                            ELSE receive_calls[s]]
    /\ event' = NoEvent
    /\ UNCHANGED <<queues, send_calls, assign_call, schedVars, masterVars, loopVars, simVars, agentVars, utilVars>>

\* ---- _assign_tasks over the channels
\* The messages the master sends to an agent
TaskAssignment(slave_id, task) ==
    [type |-> "task_assignment", task |-> task, receiver_id |-> slave_id, ring |-> "none"]

\* assign_slave_to_ring lines 1352-1360: the payload names the ring by its value
RingAssignment(slave_id, ring) ==
    [type |-> "ring_assignment", task |-> 0, receiver_id |-> slave_id, ring |-> ring]

\* The for loop of _assign_tasks lines 1203-1223 from entry i of the
\* idle_slaves snapshot on, over M and the channels Q.  The loop runs on while
\* the channel of the agent it sends to has room; at a full channel the call is
\* suspended inside _send_message (call.pc = "send").  The agent entry is
\* indexed at line 1209 after the task was popped and marked: an agent that left
\* slaves since the snapshot was taken raises KeyError there.
RECURSIVE AssignRun(_, _, _, _)
AssignRun(i, idle_slaves, M, Q) ==
    IF i > Len(idle_slaves) \/ M.task_queue = <<>>
    THEN [M |-> M, Q |-> Q, call |-> NoAssign, raised |-> FALSE]
    ELSE LET task == Head(M.task_queue)
             slave_id == idle_slaves[i]
             M1 == [M EXCEPT !.task_queue = Tail(@),
                             !.tasks[task].assigned_to = slave_id,
                             !.tasks[task].status = "in_progress",
                             !.tasks[task].since_started = 0]
         IN IF ~Has(M1.slaves, slave_id)
            THEN [M |-> M1, Q |-> Q, call |-> NoAssign, raised |-> TRUE]
            ELSE LET info == Get(M1.slaves, slave_id)
                     M2 == [M1 EXCEPT !.slaves = Put(@, slave_id,
                                          [info EXCEPT !.status = "busy",
                                                       !.assigned_tasks = Append(@, task)])]
                 IN IF full(Q[slave_id])
                    THEN [M |-> M2, Q |-> Q, raised |-> FALSE,
                          call |-> [pc |-> "send", idle_slaves |-> idle_slaves, i |-> i,
                                    slave_id |-> slave_id, task |-> task]]
                    ELSE AssignRun(i + 1, idle_slaves,
                                   [M2 EXCEPT !.in_flight = @ \cup {<<slave_id, task>>},
                                              !.sent = @ \cup {<<"task_assignment", slave_id, task>>}],
                                   [Q EXCEPT ![slave_id] = Sent(@, TaskAssignment(slave_id, task))])

\* _assign_tasks lines 1195-1198: the snapshot of the idle slaves
idle_slaves(sl) ==
    LET idle == SelectSeq(sl, LAMBDA info : info.status = "idle")
    IN [i \in 1 .. Len(idle) |-> idle[i].slave_id]

SetAssign(R, kind, task_id) ==
    /\ SetMaster(R.M)
    /\ queues' = R.Q
    /\ assign_call' = R.call
    /\ event' = [NoEvent EXCEPT !.kind = kind, !.task = task_id, !.sent = R.M.sent,
                                !.raised = R.raised]

\* submit_task with its TASK_ASSIGNMENTs going through the agents' channels
submit_task_send(priority) ==
    /\ assign_call.pc = "idle"
    /\ \E t \in TaskIds : tasks[t].status = "none"
    /\ LET task_id == CHOOSE t \in TaskIds :
                          tasks[t].status = "none" /\ \A u \in TaskIds : tasks[u].status = "none" => t <= u
           tk1 == [tasks EXCEPT ![task_id] = [NoTask EXCEPT !.status = "pending", !.priority = priority]]
           q1 == SortByPriority(Append(task_queue, task_id), tk1)
       IN SetAssign(AssignRun(1, idle_slaves(slaves),
                              [Master EXCEPT !.tasks = tk1, !.task_queue = q1], queues),
                    "submit_task", task_id)
    /\ UNCHANGED <<device_statuses, ring_assignments, agents, process_messages,
                   send_calls, receive_calls, schedVars, simVars, agentVars, utilVars>>

\* The suspended _assign_tasks goes on once the agent's channel has room: the
\* TASK_ASSIGNMENT is enqueued and the loop takes the next entry of its snapshot.
assign_resume ==
    /\ assign_call.pc = "send"
    /\ ~full(queues[assign_call.slave_id])
    /\ SetAssign(AssignRun(assign_call.i + 1, assign_call.idle_slaves,
                           [Master EXCEPT !.in_flight = @ \cup {<<assign_call.slave_id, assign_call.task>>},
                                          !.sent = {<<"task_assignment", assign_call.slave_id, assign_call.task>>}],
                           [queues EXCEPT ![assign_call.slave_id] = Sent(@, TaskAssignment(assign_call.slave_id, assign_call.task))]),
                 "assign_resume", assign_call.task)
    /\ UNCHANGED <<device_statuses, ring_assignments, agents, process_messages,
                   send_calls, receive_calls, schedVars, simVars, agentVars, utilVars>>

\* --------------------------- Part V: SlaveAgent and the master's life cycle
\* The agents are SlaveAgent objects started with start(); the master is the
\* aws-orchestrator's, or the simulator's, whose message loop only sleeps.
\* An agent sends to the channel of the master and receives from its own
\* channel of Part IV.  Every channel is an InMemoryQueue of QueueMaxsize: a
\* coroutine that sends to a full channel is suspended inside queue.put until
\* the channel has room.

Kinds == {"aws", "simulator"}

\* The agents that are started with start()
AgentIds == 1 .. MaxAgents

AwsLoops == {"heartbeat_monitor", "task_monitor", "ring_rebalancer"}

\* The tasks start() creates before it awaits _process_messages
BackgroundTasks(kind) ==
    IF kind = "aws" THEN AwsLoops ELSE AwsLoops \cup {"deployment_watcher", "attribute_alteration"}

\* SlaveAgent.__init__.  Each of the three tasks of start() is "none" before
\* it is created, "running" at the head of its while loop, "done" once it has
\* returned; message_task also names the send _handle_message is at.  A task
\* suspended in a send of the device status holds the ring it put in the
\* message (heartbeat_put, monitor_put).  results counts the TASK_RESULTs sent
\* for the assignment being handled, raised the exception its handling met.
NewAgent ==
    [running |-> FALSE, status |-> "idle", current_task |-> 0, assigned_ring |-> "unassigned",
     message_task |-> "none", heartbeat_task |-> "none", device_monitor_task |-> "none",
     heartbeat_put |-> "none", monitor_put |-> "none", results |-> 0, raised |-> "none"]

\* MasterOrchestrator.__init__: start is where the start() coroutine is, stop
\* where the stop() coroutine is; shutdown holds the messages
\* _broadcast_shutdown has still to send.  cancelled and live are history:
\* the tasks stop() has cancelled and the keys of slaves when stop() was called.
NewOrchestrator ==
    [kind |-> "aws", running |-> FALSE, background_tasks |-> {}, start |-> "none",
     stop |-> "none", shutdown |-> <<>>, cancelled |-> {}, live |-> {}]

AgentInit ==
    /\ slave_agent = [s \in SlaveIds |-> NewAgent]
    /\ master_queue = <<>>
    /\ orchestrator = NewOrchestrator

\* SlaveAgent._send_message: a message to the master.  ring is the
\* assigned_ring of device_status.to_dict() ("none" when the payload holds no
\* device status), task the task_id of the payload.
ToMaster(type, sender_id, ring, task) ==
    [type |-> type, sender_id |-> sender_id, ring |-> ring, task |-> task]

Report(type, sender_id, ring) == ToMaster(type, sender_id, ring, 0)

MasterFull == Len(master_queue) >= QueueMaxsize

Shutdown(slave_id) == [type |-> "shutdown", task |-> 0, receiver_id |-> slave_id, ring |-> "none"]

Ack(slave_id) == [type |-> "ack", task |-> 0, receiver_id |-> slave_id, ring |-> "none"]

\* The sends a coroutine of the master awaits one after the other: each goes
\* through while the receiver's queue has room, and the coroutine is
\* suspended at the first one that finds the queue full.
RECURSIVE Deliver(_, _)
Deliver(Q, box) ==
    IF box = <<>> \/ full(Q[Head(box).receiver_id])
    THEN [queues |-> Q, box |-> box]
    ELSE Deliver([Q EXCEPT ![Head(box).receiver_id] = Sent(@, Head(box))], Tail(box))

Keys(d) == {d[i].slave_id : i \in 1 .. Len(d)}

\* ---- the master
\* MasterOrchestrator.start up to the await of _process_messages
start(kind) ==
    /\ ~orchestrator.running
    /\ orchestrator.start = "none"
    /\ orchestrator' = [orchestrator EXCEPT !.kind = kind, !.running = TRUE,
                                            !.background_tasks = BackgroundTasks(kind),
                                            !.start = "process_messages"]
    /\ event' = NoEvent
    /\ UNCHANGED <<slave_agent, master_queue, schedVars, masterVars, loopVars, simVars,
                   chanVars, utilVars>>

\* _broadcast_shutdown from the message at the head of box on; the
\* simulator's stop() goes on to agent_spawner.stop_all_agents().
Broadcast(O, box) ==
    LET D == Deliver(queues, box)
    IN /\ queues' = D.queues
       /\ orchestrator' = [O EXCEPT !.shutdown = D.box,
                                    !.stop = IF D.box = <<>> THEN "stopped" ELSE "broadcast"]
       /\ agents' = IF D.box = <<>> /\ O.kind = "simulator" THEN {} ELSE agents

\* MasterOrchestrator.stop: running = False, every task of start() is
\* cancelled, then SHUTDOWN is sent to list(self.slaves.keys()) in turn.
stop ==
    /\ orchestrator.start # "none"
    /\ orchestrator.stop = "none"
    /\ Broadcast([orchestrator EXCEPT !.running = FALSE,
                                      !.cancelled = orchestrator.background_tasks,
                                      !.background_tasks = {},
                                      !.live = Keys(slaves)],
                 [i \in 1 .. Len(slaves) |-> Shutdown(slaves[i].slave_id)])
    /\ event' = [NoEvent EXCEPT !.kind = "stop"]
    /\ UNCHANGED <<slaves, device_statuses, ring_assignments, tasks, task_queue, loopVars,
                   send_calls, receive_calls, assign_call, slave_agent, master_queue,
                   schedVars, simVars, utilVars>>

\* stop() resumed inside _broadcast_shutdown: the channel it waits for has room
stop_resume ==
    /\ orchestrator.stop = "broadcast"
    /\ ~full(queues[Head(orchestrator.shutdown).receiver_id])
    /\ Broadcast(orchestrator, orchestrator.shutdown)
    /\ event' = NoEvent
    /\ UNCHANGED <<slaves, device_statuses, ring_assignments, tasks, task_queue, loopVars,
                   send_calls, receive_calls, assign_call, slave_agent, master_queue,
                   schedVars, simVars, utilVars>>

\* _handle_message of the master for message m; metrics are the figures of
\* the device status m carries, pick is random.choice of _auto_assign_ring.
\* The result is the master's dicts and the messages the handler sends.
\* ACK has no branch; TASK_STATUS is logged; TASK_RESULT is logged for a task
\* id that is not in tasks (the other branches are handle_task_result).
Handled(m, metrics, pick) ==
    LET s == m.sender_id
        same == [slaves |-> slaves, ds |-> device_statuses, ra |-> ring_assignments, box |-> <<>>]
        report == from_dict(s, metrics, m.ring)
    IN CASE m.type = "registration" ->
               IF Has(slaves, s)
               THEN same
               ELSE LET sl1 == Append(slaves, NewSlave(s))
                        R == AutoAssignRing(sl1, [ds |-> Put(device_statuses, s, report),
                                                  ra |-> ring_assignments], s, pick)
                    IN [slaves |-> sl1, ds |-> R.ds, ra |-> R.ra,
                        box |-> <<RingAssignment(s, Get(R.ds, s).assigned_ring), Ack(s)>>]
         [] m.type = "heartbeat" ->
               IF Has(slaves, s)
               THEN [same EXCEPT !.slaves = Put(slaves, s, [Get(slaves, s) EXCEPT !.since_heartbeat = 0]),
                                 !.ds = Put(device_statuses, s, report)]
               ELSE same
         [] m.type = "device_status_update" ->
               [same EXCEPT !.ds = Put(device_statuses, s, report)]
         [] m.type = "error" ->
               IF Has(slaves, s)
               THEN [same EXCEPT !.slaves = Put(slaves, s, [Get(slaves, s) EXCEPT !.status = "error"])]
               ELSE same
         [] OTHER -> same

\* _process_messages of the aws master, one turn of the loop that receives a
\* message and runs its handler.  The only handler that sends here is the
\* registration's: its two messages go to a channel that nothing was sent to
\* before, so they do not wait (QueueMaxsize is at least 2).  The simulator's
\* loop body is asyncio.sleep(0.1): it receives nothing.
process_message(metrics, pick) ==
    /\ orchestrator.start = "process_messages"
    /\ orchestrator.kind = "aws"
    /\ master_queue # <<>>
    /\ process_messages = "running"
    /\ LET m == Head(master_queue)
           H == Handled(m, metrics, pick)
           D == Deliver(queues, H.box)
       IN /\ m.type = "task_result" => tasks[m.task].status = "none"
          /\ slaves' = H.slaves
          /\ device_statuses' = H.ds
          /\ ring_assignments' = H.ra
          /\ D.box = <<>>
          /\ queues' = D.queues
          /\ event' = [NoEvent EXCEPT !.kind = "process_message", !.sender = m.sender_id,
                                      !.reason = m.type]
    /\ master_queue' = Tail(master_queue)
    /\ UNCHANGED <<tasks, task_queue, agents, loopVars, send_calls, receive_calls, assign_call,
                   slave_agent, orchestrator, schedVars, simVars, utilVars>>

\* _process_messages returns: "while self.running" is false at the head of the loop
process_messages_return ==
    /\ orchestrator.start = "process_messages"
    /\ ~orchestrator.running
    /\ orchestrator' = [orchestrator EXCEPT !.start = "returned"]
    /\ event' = NoEvent
    /\ UNCHANGED <<masterVars, loopVars, chanVars, slave_agent, master_queue,
                   schedVars, simVars, utilVars>>

\* assign_slave_to_ring called directly (by caller 1 of Part IV): the dicts
\* are updated, then RING_ASSIGNMENT is sent
assign_slave_to_ring_notify(slave_id, ring) ==
    /\ Has(slaves, slave_id)
    /\ send_calls[1].pc = "idle"
    /\ queues[slave_id].sent < MaxSent
    /\ SetRings(AssignSlaveToRing(slaves, Rings, slave_id, ring))
    /\ IF full(queues[slave_id])
       THEN /\ send_calls' = [send_calls EXCEPT ![1] = [pc |-> "put", to |-> slave_id,
                                                        message |-> RingAssignment(slave_id, ring)]]
            /\ UNCHANGED queues
       ELSE /\ queues' = [queues EXCEPT ![slave_id] = Sent(@, RingAssignment(slave_id, ring))]
            /\ UNCHANGED send_calls
    /\ event' = [NoEvent EXCEPT !.kind = "assign_slave_to_ring", !.channel = slave_id,
                                !.reason = ring]
    /\ UNCHANGED <<slaves, tasks, task_queue, agents, loopVars, receive_calls, assign_call,
                   agentVars, schedVars, simVars, utilVars>>

\* ---- the agents
\* SlaveAgent.start: REGISTRATION is sent with the device status, then the
\* three tasks are created.  (A start() whose send finds the master's channel
\* full waits there with nothing but running set; it is taken as not begun.)
agent_start(s) ==
    /\ ~slave_agent[s].running
    /\ slave_agent[s].message_task = "none"
    /\ ~MasterFull
    /\ master_queue' = Append(master_queue, Report("registration", s, slave_agent[s].assigned_ring))
    /\ slave_agent' = [slave_agent EXCEPT ![s].running = TRUE,
                                          ![s].heartbeat_task = "running",
                                          ![s].message_task = "running",
                                          ![s].device_monitor_task = "running"]
    /\ event' = NoEvent
    /\ UNCHANGED <<orchestrator, schedVars, masterVars, loopVars, simVars, chanVars, utilVars>>

\* One turn of a loop that reports the device status (task, put name the
\* fields of the loop): "while self.running", the message is built from
\* device_status.to_dict(), sent, and the loop sleeps.
ReportLoop(s, task, put, type) ==
    /\ slave_agent[s][task] = "running"
    /\ IF ~slave_agent[s].running
       THEN /\ slave_agent' = [slave_agent EXCEPT ![s][task] = "done"]
            /\ UNCHANGED master_queue
       ELSE IF MasterFull
       THEN /\ slave_agent' = [slave_agent EXCEPT ![s][task] = "put",
                                                  ![s][put] = slave_agent[s].assigned_ring]
            /\ UNCHANGED master_queue
       ELSE /\ master_queue' = Append(master_queue, Report(type, s, slave_agent[s].assigned_ring))
            /\ UNCHANGED slave_agent
    /\ event' = NoEvent
    /\ UNCHANGED <<orchestrator, schedVars, masterVars, loopVars, simVars, chanVars, utilVars>>

\* The loop resumed inside _send_message: the master's channel has room
ReportResume(s, task, put, type) ==
    /\ slave_agent[s][task] = "put"
    /\ ~MasterFull
    /\ master_queue' = Append(master_queue, Report(type, s, slave_agent[s][put]))
    /\ slave_agent' = [slave_agent EXCEPT ![s][task] = "running", ![s][put] = "none"]
    /\ event' = NoEvent
    /\ UNCHANGED <<orchestrator, schedVars, masterVars, loopVars, simVars, chanVars, utilVars>>

\* _send_heartbeats
send_heartbeats(s) == ReportLoop(s, "heartbeat_task", "heartbeat_put", "heartbeat")

send_heartbeats_resume(s) == ReportResume(s, "heartbeat_task", "heartbeat_put", "heartbeat")

\* _monitor_device_status
monitor_device_status(s) ==
    ReportLoop(s, "device_monitor_task", "monitor_put", "device_status_update")

monitor_device_status_resume(s) ==
    ReportResume(s, "device_monitor_task", "monitor_put", "device_status_update")

\* The second definition of SlaveAgent.stop (lines 394-401) is the one the
\* class keeps; _task is None for an agent started with start().
Stopped(agent) == [agent EXCEPT !.running = FALSE, !.status = "stopped"]

\* Mutant of Taken: the agent does not store the ring of a RING_ASSIGNMENT.
TakenKeepsRing(agent, m) ==
    CASE m.type = "shutdown" -> Stopped(agent)
      [] m.type = "ring_assignment" -> [agent EXCEPT !.message_task = "ack"]
      [] m.type = "task_assignment" ->
            [agent EXCEPT !.current_task = m.task, !.status = "busy", !.results = 0,
                          !.message_task = "status0"]
      [] OTHER -> agent

\* _handle_message of the agent up to its first send: what the agent is after
\* taking m, with message_task at the send that comes next
Taken(agent, m) ==
    CASE m.type = "shutdown" -> Stopped(agent)
      [] m.type = "ring_assignment" ->
            [agent EXCEPT !.assigned_ring = m.ring, !.message_task = "ack"]
      [] m.type = "task_assignment" ->
            [agent EXCEPT !.current_task = m.task, !.status = "busy", !.results = 0,
                          !.message_task = "status0"]
      [] OTHER -> agent

\* _process_messages of the agent, one turn of the loop: it returns when
\* running is false, else takes the message at the head of its channel
agent_process_messages(s) ==
    /\ slave_agent[s].message_task = "running"
    /\ IF ~slave_agent[s].running
       THEN /\ slave_agent' = [slave_agent EXCEPT ![s].message_task = "done"]
            /\ event' = NoEvent
            /\ UNCHANGED queues
       ELSE /\ queues[s].queue # <<>>
            /\ queues' = [queues EXCEPT ![s] = Received(@)]
            /\ slave_agent' = [slave_agent EXCEPT ![s] = Taken(@, Head(queues[s].queue))]
            /\ event' = [NoEvent EXCEPT !.kind = "agent_receive", !.channel = s,
                                        !.message = Head(queues[s].queue)]
    /\ UNCHANGED <<send_calls, receive_calls, assign_call, orchestrator, master_queue,
                   schedVars, masterVars, loopVars, simVars, utilVars>>

\* Mutant of Finally: the agent keeps its task and stays busy.
FinallyKeepsTask(agent) == [agent EXCEPT !.raised = "none", !.message_task = "running"]

\* The finally clause of _handle_task_assignment
Finally(agent) ==
    [agent EXCEPT !.current_task = 0, !.status = "idle", !.raised = "none",
                  !.message_task = "running"]

\* The handling of a message goes on from the send it is at, once the
\* master's channel has room, up to its next send.  outcome is what comes
\* after the send: "unknown" when _execute_task finds no handler for the task
\* type (ValueError), "raise" when the handler raises, "ok" otherwise.  Both
\* exceptions end in the except clause, which sends the result with the error.
agent_send(s, outcome) ==
    LET agent == slave_agent[s]
        pc == agent.message_task
    IN /\ pc \in {"ack", "status0", "status25", "status75", "result", "error_result"}
       /\ ~MasterFull
       /\ outcome \in (CASE pc = "status0" -> {"ok", "unknown"}
                         [] pc = "status25" -> {"ok", "raise"}
                         [] OTHER -> {"ok"})
       /\ master_queue' = Append(master_queue,
             CASE pc = "ack" -> Report("ack", s, agent.assigned_ring)
               [] pc \in {"result", "error_result"} ->
                     ToMaster("task_result", s, "none", agent.current_task)
               [] OTHER -> ToMaster("task_status", s, "none", agent.current_task))
       /\ slave_agent' = [slave_agent EXCEPT ![s] =
             CASE pc = "ack" -> [agent EXCEPT !.message_task = "running"]
               [] pc = "status0" ->
                     IF outcome = "unknown"
                     THEN [agent EXCEPT !.message_task = "error_result", !.raised = "ValueError"]
                     ELSE [agent EXCEPT !.message_task = "status25"]
               [] pc = "status25" ->
                     IF outcome = "raise"
                     THEN [agent EXCEPT !.message_task = "error_result", !.raised = "handler"]
                     ELSE [agent EXCEPT !.message_task = "status75"]
               [] pc = "status75" -> [agent EXCEPT !.message_task = "result"]
               [] OTHER -> Finally([agent EXCEPT !.results = @ + 1])]
       /\ event' = IF pc \in {"result", "error_result"}
                   THEN [NoEvent EXCEPT !.kind = "task_handled", !.sender = s,
                                        !.task = agent.current_task, !.reason = agent.raised]
                   ELSE IF pc = "ack"
                   THEN [NoEvent EXCEPT !.kind = "ack", !.sender = s, !.reason = agent.assigned_ring]
                   ELSE NoEvent
       /\ UNCHANGED <<orchestrator, schedVars, masterVars, loopVars, simVars, chanVars, utilVars>>

\* ------------------------------------ Part VI: the simulator's ring manager
\* The simulator's master keeps slaves, device_manager.device_statuses and
\* ring_manager.ring_assignments; its ring is chosen from a risk score of the
\* device's usage, and its rebalancer loop only sleeps.  Usages are whole
\* percents here, so the score's int(...) is a floor of a quotient of integers.

\* Reports with a disk usage: the two of DeviceMetrics and the same two
\* batteries on a lightly loaded device.
SimMetrics ==
    DeviceMetrics \cup
    { [battery_level |-> 21, cpu_usage |-> 25, memory_usage |-> 25, disk_usage |-> 25],
      [battery_level |-> 20, cpu_usage |-> 25, memory_usage |-> 25, disk_usage |-> 25] }

\* The scores are computed in IEEE doubles.  At these totals of the three
\* usages the top band's expression, a whole number when computed exactly,
\* comes out just below it, and int() gives the whole number below.
ServiceShort == {242 + 6 * k : k \in 0 .. 9}

ManagerShort == ServiceShort \cup {288, 294}

Short(sum, short) == IF sum \in short THEN 1 ELSE 0

\* max(lo, min(hi, x))
Clamp(lo, hi, x) == IF x < lo THEN lo ELSE IF x > hi THEN hi ELSE x

\* calculate_device_risk_score, with sum = 3 * avg_usage:
\*   30 * (1 - (avg - 80) / 20)      = (300 - sum) / 2, less the shortfall
\*   31 + 39 * (1 - (avg - 50) / 30) = (12150 - 39 * sum) / 90
\*   71 + 29 * (1 - avg / 50)        = (15000 - 29 * sum) / 150
calculate_device_risk_score(device_status) ==
    LET sum == device_status.cpu_usage + device_status.memory_usage + device_status.disk_usage
    IN IF sum > 240 THEN Clamp(0, 30, (300 - sum) \div 2 - Short(sum, ManagerShort))
       ELSE IF sum > 150 THEN Clamp(31, 70, (12150 - 39 * sum) \div 90)
       ELSE Clamp(71, 100, (15000 - 29 * sum) \div 150)

\* Mutant of calculate_risk_score: the middle band rises with the usage.
calculate_risk_score_rising(avg_cpu_usage, avg_memory_usage, avg_disk_space) ==
    LET sum == avg_cpu_usage + avg_memory_usage + (100 - avg_disk_space)
    IN IF sum > 240 THEN Clamp(0, 100, (300 - sum) \div 2 - Short(sum, ServiceShort))
       ELSE IF sum > 150 THEN Clamp(0, 100, (sum - 57) \div 3)
       ELSE Clamp(0, 100, (30000 - 58 * sum) \div 300)

\* SimulatorService._calculate_risk_score, with sum = 3 * avg_usage and
\* avg_disk_space the free disk:
\*   30 - (avg - 80) * 1.5    = (300 - sum) / 2
\*   70 - (avg - 50)          = (360 - sum) / 3
\*   71 + (50 - avg) * 0.58   = (30000 - 58 * sum) / 300
calculate_risk_score(avg_cpu_usage, avg_memory_usage, avg_disk_space) ==
    LET sum == avg_cpu_usage + avg_memory_usage + (100 - avg_disk_space)
    IN IF sum > 240 THEN Clamp(0, 100, (300 - sum) \div 2 - Short(sum, ServiceShort))
       ELSE IF sum > 150 THEN Clamp(0, 100, (360 - sum) \div 3)
       ELSE Clamp(0, 100, (30000 - 58 * sum) \div 300)

\* Whole percents from 0 to 100 whose totals take every value from 0 to 300
UsageTriples == [cpu_usage : 0 .. 100, memory_usage : {0, 100}, disk_usage : {0, 100}]

Total(m) == m.cpu_usage + m.memory_usage + m.disk_usage

\* Both scores of a device with usage m are computed; before holds the total
\* and the scores of the device scored last, whose total was the same or one less.
risk_scores(m) ==
    /\ wire.pc \in {"none", "risk"}
    /\ wire.pc = "risk" => Total(m) - Total(wire.usage) \in {0, 1}
    /\ wire' = [pc |-> "risk", usage |-> m,
                service |-> calculate_risk_score(m.cpu_usage, m.memory_usage, 100 - m.disk_usage),
                manager |-> calculate_device_risk_score(m),
                before |-> IF wire.pc = "risk"
                           THEN [total |-> Total(wire.usage), service |-> wire.service,
                                 manager |-> wire.manager]
                           ELSE [total |-> -1, service |-> 100, manager |-> 100]]
    /\ event' = NoEvent
    /\ UNCHANGED <<db_write, watchVars, schedVars, masterVars, loopVars, simVars, chanVars, agentVars>>

\* RingManager._determine_optimal_ring
determine_optimal_ring(ds, slave_id) ==
    IF ~Has(ds, slave_id)
    THEN "dev"
    ELSE LET device_status == Get(ds, slave_id)
             risk_score == calculate_device_risk_score(device_status)
         IN IF risk_score >= 80 /\ device_status.cpu_usage <= 25 THEN "prod"
            ELSE IF risk_score >= 50 /\ device_status.cpu_usage <= 60 THEN "dev"
            ELSE IF risk_score >= 25 THEN "stage"
            ELSE "canary"

\* RingManager.assign_to_ring on the pair R: the id is removed once from every
\* ring list that holds it, appended to the new one, and the device's record
\* follows.  The database row written last (update_ring_in_db) is no state of
\* the ring manager.
assign_to_ring(R, slave_id, ring) ==
    LET ra1 == [r \in RingTypes |->
                   IF InSeq(slave_id, R.ra[r]) THEN RemoveFirst(R.ra[r], slave_id) ELSE R.ra[r]]
        ra2 == [ra1 EXCEPT ![ring] = Append(@, slave_id)]
        ds2 == IF Has(R.ds, slave_id)
               THEN Put(R.ds, slave_id, [Get(R.ds, slave_id) EXCEPT !.assigned_ring = ring])
               ELSE R.ds
    IN [ds |-> ds2, ra |-> ra2]

\* RingManager.auto_assign_ring
auto_assign_ring(R, slave_id) ==
    IF ~Has(R.ds, slave_id)
    THEN R
    ELSE assign_to_ring(R, slave_id, determine_optimal_ring(R.ds, slave_id))

\* The simulator's MasterOrchestrator.register_slave: the device status is
\* created from the report, the slave entered, its ring chosen, ACK sent.
simulator_register_slave(slave_id, metrics, assigned_ring) ==
    /\ orchestrator.kind = "simulator"
    /\ ~Has(slaves, slave_id)
    /\ ~full(queues[slave_id])
    /\ LET ds1 == Put(device_statuses, slave_id, from_dict(slave_id, metrics, assigned_ring))
       IN SetRings(auto_assign_ring([ds |-> ds1, ra |-> ring_assignments], slave_id))
    /\ slaves' = Append(slaves, NewSlave(slave_id))
    /\ queues' = [queues EXCEPT ![slave_id] = Sent(@, Ack(slave_id))]
    /\ event' = NoEvent
    /\ UNCHANGED <<in_flight, tasks, task_queue, agents, process_messages, send_calls,
                   receive_calls, assign_call, schedVars, simVars, agentVars, utilVars>>

\* AgentSpawner.spawn_agent_from_device: the agent is kept and its device
\* status created from the capabilities, in no ring.
spawn_agent_from_device(slave_id, metrics) ==
    /\ orchestrator.kind = "simulator"
    /\ slave_id \notin agents
    /\ agents' = agents \cup {slave_id}
    /\ device_statuses' = Put(device_statuses, slave_id, from_dict(slave_id, metrics, "unassigned"))
    /\ event' = NoEvent
    /\ UNCHANGED <<in_flight, slaves, ring_assignments, tasks, task_queue, process_messages,
                   schedVars, simVars, chanVars, agentVars, utilVars>>

\* RingManager.ring_rebalancer_loop: one pass of the loop body, a sleep
ring_rebalancer_loop ==
    /\ orchestrator.kind = "simulator"
    /\ "ring_rebalancer" \in orchestrator.background_tasks
    /\ event' = [NoEvent EXCEPT !.kind = "ring_rebalancer"]
    /\ UNCHANGED <<masterVars, loopVars, schedVars, simVars, chanVars, agentVars, utilVars>>

\* ----------------------------- Part VII: persisted writes (config_loader)
\* db_write is the call of a write that is under way: the function called
\* (op), the position in its retry loops (attempt of update_deployment_status,
\* retry of the loop around the SQL statements) and what it returned.
\* attempts and last are history: the connections opened by the call and how
\* the last one ended.
DeviceWrites == {"update_device_attributes", "update_device_ring"}

Writes == DeviceWrites \cup {"update_deployment_status"}

\* How the statements of one try block end: they commit, sqlite reports
\* "database is locked" / busy, or they raise anything else.
WriteOutcomes == {"ok", "locked", "error"}

NoWrite ==
    [op |-> "none", pc |-> "idle", attempt |-> 0, retry |-> 0, attempts |-> 0,
     last |-> "none", result |-> "none"]

\* Mutant of Retried: a locked database is retried without a limit.
RetriedForever(outcome, retry) == outcome = "locked"

\* 'locked' in error_msg or 'busy' in error_msg, on a retry that is not the last
Retried(outcome, retry) == outcome = "locked" /\ retry < max_retries - 1

Returned(w, result) == [w EXCEPT !.pc = "returned", !.result = result]

\* update_device_attributes and update_device_ring: one pass of the for loop
update_device_attempt(w, outcome) ==
    LET w1 == [w EXCEPT !.attempts = @ + 1, !.last = outcome]
    IN IF outcome = "ok" THEN Returned(w1, "True")
       ELSE IF Retried(outcome, w.retry) THEN [w1 EXCEPT !.retry = @ + 1]
       ELSE Returned(w1, "False")

\* update_deployment_status: one pass of the loop of
\* _update_deployment_status_sync, which raises after its last retry and on
\* any other error; the except clause of update_deployment_status then sleeps
\* and calls it again, or returns False after its last attempt.
update_deployment_status_attempt(w, outcome) ==
    LET w1 == [w EXCEPT !.attempts = @ + 1, !.last = outcome]
    IN IF outcome = "ok" THEN Returned(w1, "True")
       ELSE IF Retried(outcome, w.retry) THEN [w1 EXCEPT !.retry = @ + 1]
       ELSE IF w.attempt < deployment_max_retries - 1
       THEN [w1 EXCEPT !.attempt = @ + 1, !.retry = 0]
       ELSE Returned(w1, "False")

\* A write is called; the call before it has returned.
write_call(op) ==
    /\ db_write.pc \in {"idle", "returned"}
    /\ db_write' = [NoWrite EXCEPT !.op = op, !.pc = "try"]
    /\ event' = NoEvent
    /\ UNCHANGED <<wire, watchVars, schedVars, masterVars, loopVars, simVars, chanVars, agentVars>>

\* The try block of the write under way is run once.
write_attempt(outcome) ==
    /\ db_write.pc = "try"
    /\ db_write' = IF db_write.op \in DeviceWrites
                   THEN update_device_attempt(db_write, outcome)
                   ELSE update_deployment_status_attempt(db_write, outcome)
    /\ event' = NoEvent
    /\ UNCHANGED <<wire, watchVars, schedVars, masterVars, loopVars, simVars, chanVars, agentVars>>

\* ------------------------------- Part VIII: DeviceStatus as a dictionary
\* A DeviceStatus object holds a member of the enum RingType and a datetime;
\* its dictionary holds the member's value and the datetime's ISO string.
\* Members are written by their names, a datetime as its second and
\* microsecond, a string as the sequence of its parts.
RingMembers == <<"CANARY", "DEV", "STAGE", "PROD", "UNASSIGNED">>

\* member.value
RingValue(member) == RingType[CHOOSE i \in 1 .. Len(RingMembers) : RingMembers[i] = member]

\* RingType(value): the member with that value, ValueError when there is none
RingMember(value) ==
    IF \E i \in 1 .. Len(RingType) : RingType[i] = value
    THEN RingMembers[CHOOSE i \in 1 .. Len(RingType) : RingType[i] = value]
    ELSE "ValueError"

RECURSIVE Power10(_)
Power10(n) == IF n = 0 THEN 1 ELSE 10 * Power10(n - 1)

\* Mutant of isoformat: the string stops at the seconds.
isoformat_seconds(t) == <<t.second>>

\* datetime.isoformat: "...:SS" when microsecond is 0, else "...:SS.ffffff"
\* with the microsecond as six digits
isoformat(t) ==
    IF t.microsecond = 0
    THEN <<t.second>>
    ELSE <<t.second, ".">> \o [i \in 1 .. 6 |-> (t.microsecond \div Power10(6 - i)) % 10]

RECURSIVE DigitsValue(_)
DigitsValue(digits) ==
    IF digits = <<>> THEN 0
    ELSE Head(digits) * Power10(Len(digits) - 1) + DigitsValue(Tail(digits))

\* datetime.fromisoformat
fromisoformat(string) ==
    [second |-> string[1],
     microsecond |-> IF Len(string) = 1 THEN 0 ELSE DigitsValue(SubSeq(string, 3, Len(string)))]

\* DeviceStatus.to_dict
DeviceStatus_to_dict(self) ==
    [slave_id |-> self.slave_id,
     battery_level |-> self.battery_level,
     battery_charging |-> self.battery_charging,
     cpu_usage |-> self.cpu_usage,
     memory_usage |-> self.memory_usage,
     disk_usage |-> self.disk_usage,
     assigned_ring |-> RingValue(self.assigned_ring),
     device_name |-> self.device_name,
     last_updated |-> isoformat(self.last_updated)]

\* DeviceStatus.from_dict of a dictionary that has every key
DeviceStatus_from_dict(data) ==
    [slave_id |-> data.slave_id,
     battery_level |-> data.battery_level,
     battery_charging |-> data.battery_charging,
     cpu_usage |-> data.cpu_usage,
     memory_usage |-> data.memory_usage,
     disk_usage |-> data.disk_usage,
     assigned_ring |-> RingMember(data.assigned_ring),
     device_name |-> data.device_name,
     last_updated |-> fromisoformat(data.last_updated)]

\* The datetimes of the model: two seconds, and no, the least and the most
\* microseconds.
Timestamps == [second : {0, 1}, microsecond : {0, 1, 999999}]

\* DeviceStatus objects; device_name stands for the three optional strings
\* (device_name, os_version, app_version), which both functions copy.
DeviceStatuses ==
    { [slave_id |-> s, battery_level |-> m.battery_level, battery_charging |-> c,
       cpu_usage |-> m.cpu_usage, memory_usage |-> m.memory_usage,
       disk_usage |-> m.disk_usage, assigned_ring |-> RingMembers[r], device_name |-> n,
       last_updated |-> t] :
         s \in SlaveIds, m \in SimMetrics, c \in BOOLEAN, r \in 1 .. Len(RingMembers),
         n \in {"None", "Test Device"}, t \in Timestamps }

NoWire == [pc |-> "none"]

\* A DeviceStatus is built.
device_status_new(d) ==
    /\ wire.pc \in {"none", "from_dict", "is_healthy"}
    /\ wire' = [pc |-> "new", device |-> d]
    /\ event' = NoEvent
    /\ UNCHANGED <<db_write, watchVars, schedVars, masterVars, loopVars, simVars, chanVars, agentVars>>

\* device_dict = device.to_dict()
device_status_to_dict ==
    /\ wire.pc = "new"
    /\ wire' = [pc |-> "to_dict", device |-> wire.device,
                device_dict |-> DeviceStatus_to_dict(wire.device)]
    /\ event' = NoEvent
    /\ UNCHANGED <<db_write, watchVars, schedVars, masterVars, loopVars, simVars, chanVars, agentVars>>

\* device_restored = DeviceStatus.from_dict(device_dict)
device_status_from_dict ==
    /\ wire.pc = "to_dict"
    /\ wire' = [pc |-> "from_dict", device |-> wire.device, device_dict |-> wire.device_dict,
                device_restored |-> DeviceStatus_from_dict(wire.device_dict)]
    /\ event' = NoEvent
    /\ UNCHANGED <<db_write, watchVars, schedVars, masterVars, loopVars, simVars, chanVars, agentVars>>

\* Metrics on both sides of each threshold of is_healthy
BoundaryMetrics ==
    [battery_level : {20, 21}, cpu_usage : {79, 80}, memory_usage : {84, 85}, disk_usage : {50}]

\* The DeviceStatus objects with these metrics
BoundaryStatuses ==
    { [slave_id |-> s, battery_level |-> m.battery_level, battery_charging |-> c,
       cpu_usage |-> m.cpu_usage, memory_usage |-> m.memory_usage,
       disk_usage |-> m.disk_usage, assigned_ring |-> RingMembers[r], device_name |-> "None",
       last_updated |-> [second |-> 0, microsecond |-> 0]] :
         s \in SlaveIds, m \in BoundaryMetrics, c \in BOOLEAN, r \in 1 .. Len(RingMembers) }

\* device.is_healthy() is called and its answer kept.
device_status_is_healthy ==
    /\ wire.pc = "new"
    /\ wire' = [pc |-> "is_healthy", device |-> wire.device, healthy |-> is_healthy(wire.device)]
    /\ event' = NoEvent
    /\ UNCHANGED <<db_write, watchVars, schedVars, masterVars, loopVars, simVars, chanVars, agentVars>>

UtilInit ==
    /\ db_write = NoWrite
    /\ wire = NoWire
    /\ WatchInit

\* ------------------------------------------------------------ specifications
AllDevices == [r \in RingIds |-> 1]

\* Part I: the scheduler
Init == SchedInit /\ MasterInit /\ SimInit /\ ChanInit /\ AgentInit /\ UtilInit

Next == SchedNext

Spec == Init /\ [][Next]_vars

\* The report of an agent that registers without a device status.
DefaultMetrics == [battery_level |-> 21, cpu_usage |-> 79, memory_usage |-> 84, disk_usage |-> 50]

InitMaster == SchedInit /\ deployments = "Not Started" /\ devices = AllDevices /\ MasterInit /\ SimInit /\ ChanInit /\ AgentInit /\ UtilInit

\* Part II, ring membership: registration, device reports, ring assignment
NextRings ==
    \/ \E s \in SlaveIds, m \in DeviceMetrics, r \in RingTypes, pick \in UnhealthyRings :
          register_slave(s, m, r, pick)
    \/ \E s \in SlaveIds, m \in DeviceMetrics, r \in RingTypes : update_device_status(s, m, r)
    \/ \E s \in SlaveIds, m \in DeviceMetrics, r \in RingTypes : update_heartbeat(s, TRUE, m, r)
    \/ \E s \in SlaveIds, r \in RingTypes : assign_slave_to_ring(s, r)
    \/ \E ch \in [SlaveIds -> RebalanceDraws] :
          /\ \A s \in SlaveIds : ~Has(device_statuses, s) => ch[s] = NoDraw
          /\ ring_rebalancer(ch)

SpecRings == InitMaster /\ [][NextRings]_vars

\* Parts II and VI, ring choice: a master of either kind registers devices
\* and runs its rebalancer.
NextAuto ==
    \/ \E k \in Kinds : start(k)
    \/ \E s \in SlaveIds, m \in SimMetrics, pick \in UnhealthyRings :
          orchestrator.kind = "aws" /\ orchestrator.running
          /\ register_slave(s, m, "unassigned", pick)
    \/ \E s \in SlaveIds, m \in SimMetrics, r \in RingTypes :
          orchestrator.kind = "aws" /\ orchestrator.running /\ update_device_status(s, m, r)
    \/ \E ch \in [SlaveIds -> RebalanceDraws] :
          /\ orchestrator.kind = "aws" /\ "ring_rebalancer" \in orchestrator.background_tasks
          /\ \A s \in SlaveIds : ~Has(device_statuses, s) => ch[s] = NoDraw
          /\ ring_rebalancer(ch)
    \/ \E s \in SlaveIds, m \in SimMetrics :
          orchestrator.running /\ simulator_register_slave(s, m, "unassigned")
    \/ \E s \in SlaveIds, m \in SimMetrics : orchestrator.running /\ spawn_agent_from_device(s, m)
    \/ ring_rebalancer_loop

SpecAuto == InitMaster /\ [][NextAuto]_vars

\* Part V, tasks: a started agent is sent TASK_ASSIGNMENTs; the handling of
\* each ends in a result, an unknown task type or an exception of its handler.
TaskOutcomes == {"ok", "unknown", "raise"}

NextTask ==
    \/ start("aws")
    \/ process_message(DefaultMetrics, "canary")
    \/ \E s \in AgentIds : agent_start(s)
    \/ \E s \in AgentIds : send_heartbeats(s)
    \/ \E s \in AgentIds : send_heartbeats_resume(s)
    \/ \E s \in AgentIds : monitor_device_status(s)
    \/ \E s \in AgentIds : monitor_device_status_resume(s)
    \/ \E s \in AgentIds : agent_process_messages(s)
    \/ \E s \in AgentIds, outcome \in TaskOutcomes : agent_send(s, outcome)
    \/ \E s \in AgentIds, t \in TaskIds : send(1, s, TaskAssignment(s, t))
    \/ send_resume(1)

SpecTask == InitMaster /\ [][NextTask]_vars

\* Part VII: writes to the database, each attempt ending in any outcome.  A
\* try block always ends (sqlite answers or times out), so the loop goes on.
NextWrite ==
    \/ \E op \in Writes : write_call(op)
    \/ \E outcome \in WriteOutcomes : write_attempt(outcome)

SpecWrite == InitMaster /\ [][NextWrite]_vars /\ WF_vars(\E outcome \in WriteOutcomes : write_attempt(outcome))

\* Part VIII: DeviceStatus objects are turned into dictionaries and back
NextWire ==
    \/ \E d \in DeviceStatuses : device_status_new(d)
    \/ device_status_to_dict
    \/ device_status_from_dict

SpecWire == InitMaster /\ [][NextWire]_vars

\* Part VIII: is_healthy is asked of devices around its thresholds
NextHealth ==
    \/ \E d \in BoundaryStatuses : device_status_new(d)
    \/ device_status_is_healthy

SpecHealth == InitMaster /\ [][NextHealth]_vars

\* Parts VI and VIII: the two risk scores of devices of rising usage
NextRisk == \E m \in UsageTriples : risk_scores(m)

SpecRisk == InitMaster /\ [][NextRisk]_vars

\* Part IX: rows are marked Started from outside; the watcher loop runs on.
NextWatch ==
    \/ \E d \in DeploymentIds : mark_started(d)
    \/ check_deployment_table
    \/ monitor_deployment_progress
    \/ watcher_sleep

FairWatch ==
    /\ WF_vars(check_deployment_table)
    /\ WF_vars(monitor_deployment_progress)
    /\ WF_vars(watcher_sleep)

SpecWatch == InitMaster /\ [][NextWatch]_vars /\ FairWatch

\* Part II, rings and eviction: agents register, report their own ring with
\* each heartbeat, are moved between rings, fall silent and are evicted.
NextEvict ==
    \/ \E s \in SlaveIds, r \in RingTypes, pick \in UnhealthyRings :
          register_slave(s, DefaultMetrics, r, pick)
    \/ \E s \in SlaveIds, r \in RingTypes : update_heartbeat(s, TRUE, DefaultMetrics, r)
    \/ \E s \in SlaveIds, r \in RingTypes : assign_slave_to_ring(s, r)
    \/ heartbeat_monitor
    \/ MasterTick

SpecEvict == InitMaster /\ [][NextEvict]_vars

\* Part II, requeued tasks: one priority below the retry limit, handlers that
\* succeed.  The monitors and the clock are the master's own loops and run on;
\* submissions, results and heartbeats come from outside and may stop.
NextRequeue ==
    \/ \E s \in SlaveIds : register_slave(s, DefaultMetrics, "unassigned", "canary")
    \/ submit_task(task_retry_limit - 1)
    \/ \E s \in SlaveIds, t \in TaskIds :
          <<s, t>> \in in_flight /\ handle_task_result(s, t, execute_task(TRUE))
    \/ \E s \in SlaveIds : update_heartbeat(s, FALSE, DefaultMetrics, "unassigned")
    \/ heartbeat_monitor
    \/ task_monitor
    \/ MasterTick

FairRequeue == WF_vars(heartbeat_monitor) /\ WF_vars(task_monitor) /\ WF_vars(MasterTick)

SpecRequeue == InitMaster /\ [][NextRequeue]_vars /\ FairRequeue

\* Part II, liveness of agents: spawned agents, heartbeats, the heartbeat monitor
NextAgents ==
    \/ \E s \in SlaveIds : spawn_agent_random(s)
    \/ \E s \in SlaveIds : handle_heartbeat(s)
    \/ \E s \in SlaveIds : register_slave(s, DefaultMetrics, "unassigned", "canary")
    \/ \E s \in SlaveIds, w \in BOOLEAN, m \in DeviceMetrics, r \in RingTypes :
          update_heartbeat(s, w, m, r)
    \/ \E s \in SlaveIds : handle_slave_error(s)
    \/ heartbeat_monitor
    \/ MasterTick

SpecAgents == InitMaster /\ [][NextAgents]_vars

\* Priorities of submitted tasks: one that the task monitor may raise once
\* more, one already at task_retry_limit.
TaskPriorities == {task_retry_limit - 1, task_retry_limit}

\* Part II, tasks: registration, submission, the monitors, and the result an
\* agent sends for a TASK_ASSIGNMENT it was sent
NextMaster ==
    \/ \E s \in SlaveIds : register_slave(s, DefaultMetrics, "unassigned", "canary")
    \/ \E p \in TaskPriorities : submit_task(p)
    \/ \E s \in SlaveIds, t \in TaskIds, h \in BOOLEAN :
          <<s, t>> \in in_flight /\ handle_task_result(s, t, execute_task(h))
    \/ \E s \in SlaveIds : update_heartbeat(s, FALSE, DefaultMetrics, "unassigned")
    \/ heartbeat_monitor
    \/ task_monitor
    \/ MasterTick

SpecMaster == InitMaster /\ [][NextMaster]_vars

InitSim == SchedInit /\ devices = AllDevices /\ MasterInit /\ SimInit /\ ChanInit /\ AgentInit /\ UtilInit

\* Part III: the simulator's deployment manager
NextSim ==
    \/ \E o \in DbOutcomes : dm_start_deployment(o)
    \/ \E ok \in BOOLEAN : progress_rings(ok)
    \/ \E ok \in BOOLEAN : progress_next(ok)
    \/ \E o \in DbOutcomes : watcher_complete_update(o)
    \/ watcher_complete_reset
    \/ \E o \in DbOutcomes : api_complete_update(o)
    \/ api_complete_reset
    \/ SimTick

SpecSim == InitSim /\ [][NextSim]_vars

\* Part II, the message loop: NextMaster and the messages that fail locally (a
\* result for a task id the master does not know, an error from an agent that
\* is not registered any more, a device status that cannot be parsed)
NextLoop ==
    \/ \E s \in SlaveIds : register_slave(s, DefaultMetrics, "unassigned", "canary")
    \/ submit_task(task_retry_limit)
    \/ \E s \in SlaveIds, t \in TaskIds, h \in BOOLEAN :
          <<s, t>> \in in_flight /\ handle_task_result(s, t, execute_task(h))
    \/ \E s \in SlaveIds, t \in TaskIds :
          tasks[t].status = "none" /\ handle_task_result(s, t, execute_task(TRUE))
    \/ \E s \in SlaveIds : ~Has(slaves, s) /\ handle_slave_error(s)
    \/ \E s \in SlaveIds : update_device_status_unparseable(s)
    \/ heartbeat_monitor
    \/ MasterTick

SpecLoop == InitMaster /\ [][NextLoop]_vars

\* Part II over Part IV: assignment through the agents' channels, next to the
\* two monitors, for agents whose heartbeats have stopped.  The master also
\* sends RING_ASSIGNMENT messages (assign_slave_to_ring line 1352) and an
\* agent takes a message off its channel when it gets to run.
NextAssign ==
    \/ \E s \in SlaveIds : register_slave(s, DefaultMetrics, "unassigned", "canary")
    \/ submit_task_send(task_retry_limit - 1)
    \/ assign_resume
    \/ \E to \in SlaveIds :
          Has(slaves, to) /\ ~full(queues[to]) /\ send_message(1, RingAssignment(to, "prod"))
    \/ \E s \in SlaveIds : queues[s].queue # <<>> /\ receive_message(s, 1)
    \/ heartbeat_monitor
    \/ task_monitor
    \/ MasterTick

SpecAssign == InitMaster /\ [][NextAssign]_vars

\* Priorities a caller may give a task: the default 0 up to task_retry_limit.
AnyPriority == 0 .. task_retry_limit

\* Part II with the master's loops not started (start() was not called): one
\* agent is registered by a direct call, then tasks are submitted.
NextStatus ==
    \/ \E s \in SlaveIds, m \in DeviceMetrics, r \in RingTypes, pick \in UnhealthyRings :
          slaves = <<>> /\ register_slave(s, m, r, pick)
    \/ \E p \in AnyPriority : slaves # <<>> /\ submit_task(p)

SpecStatus == InitMaster /\ [][NextStatus]_vars

\* Part V, the life cycle: the master is started and stopped while agents
\* start, register, report and take the messages sent to them.
NextStop ==
    \/ \E k \in Kinds : start(k)
    \/ stop
    \/ stop_resume
    \/ \E m \in DeviceMetrics, pick \in UnhealthyRings : process_message(m, pick)
    \/ process_messages_return
    \/ \E s \in AgentIds : agent_start(s)
    \/ \E s \in AgentIds : send_heartbeats(s)
    \/ \E s \in AgentIds : send_heartbeats_resume(s)
    \/ \E s \in AgentIds : monitor_device_status(s)
    \/ \E s \in AgentIds : monitor_device_status_resume(s)
    \/ \E s \in AgentIds : agent_process_messages(s)
    \/ \E s \in AgentIds : agent_send(s, "ok")

\* The event loop runs every coroutine that can go on: the loops of the
\* agents, the message loop of the master and the suspended sends.  A
\* suspended put is woken in turn (asyncio wakes putters first come, first
\* served), hence the strong fairness of the resumed sends.  Nothing obliges
\* anybody to call start(), stop() or an agent's start().
FairStop ==
    /\ WF_vars(\E m \in DeviceMetrics, pick \in UnhealthyRings : process_message(m, pick))
    /\ WF_vars(process_messages_return)
    /\ SF_vars(stop_resume)
    /\ \A s \in AgentIds :
          /\ WF_vars(send_heartbeats(s))
          /\ WF_vars(monitor_device_status(s))
          /\ WF_vars(agent_process_messages(s))
          /\ SF_vars(send_heartbeats_resume(s))
          /\ SF_vars(monitor_device_status_resume(s))
          /\ SF_vars(agent_send(s, "ok"))

SpecStop == InitMaster /\ [][NextStop]_vars /\ FairStop

\* The rings a device is deployed in
DeployableRings == RingTypes \ {"unassigned"}

\* The rings the direct calls of assign_slave_to_ring name
AssignedRings == {"stage", "prod"}

\* Part V, ring assignment end to end: a started aws master, agents that
\* start, register and report a healthy device, and direct calls of
\* assign_slave_to_ring.
NextRing ==
    \/ start("aws")
    \/ process_message(DefaultMetrics, "canary")
    \/ \E s \in AgentIds : agent_start(s)
    \/ \E s \in AgentIds : send_heartbeats(s)
    \/ \E s \in AgentIds : send_heartbeats_resume(s)
    \/ \E s \in AgentIds : monitor_device_status(s)
    \/ \E s \in AgentIds : monitor_device_status_resume(s)
    \/ \E s \in AgentIds : agent_process_messages(s)
    \/ \E s \in AgentIds : agent_send(s, "ok")
    \/ \E s \in AgentIds, r \in AssignedRings : assign_slave_to_ring_notify(s, r)
    \/ send_resume(1)

\* As FairStop; the caller of assign_slave_to_ring is resumed like any other
\* suspended sender.
FairRing ==
    /\ WF_vars(process_message(DefaultMetrics, "canary"))
    /\ SF_vars(send_resume(1))
    /\ \A s \in AgentIds :
          /\ WF_vars(send_heartbeats(s))
          /\ WF_vars(monitor_device_status(s))
          /\ WF_vars(agent_process_messages(s))
          /\ SF_vars(send_heartbeats_resume(s))
          /\ SF_vars(monitor_device_status_resume(s))
          /\ SF_vars(agent_send(s, "ok"))

SpecRing == InitMaster /\ [][NextRing]_vars /\ FairRing

\* Part IV: one process sends on the channels, one receives from each
NextQueue ==
    \/ \E c \in Senders, m \in Payloads : send_message(c, m)
    \/ \E c \in Senders : send_resume(c)
    \/ \E s \in SlaveIds, timeout \in 0 .. MaxTimeout : receive_message(s, timeout)
    \/ \E s \in SlaveIds : receive_resume(s)
    \/ \E s \in SlaveIds : receive_timeout(s)
    \/ QueueTick

SpecQueue == InitMaster /\ [][NextQueue]_vars

\* ------------------------------------------------------------ Part I claims

InProgressRings == {r \in RingIds : deployment_rings[r].status = "In Progress"}

GateEvent(e, outcome) == e.kind = "gate" /\ e.outcome = outcome

\* C2: when the gating evaluation of ring k returns "failed" with a reason, the
\* run ends with ring k Failed carrying that reason, every later ring that was
\* Not Started or In Progress Stopped and the deployment Failed; the run makes
\* no gating call after the failing one.
C2_GatingFailureCascades ==
    [][/\ GateEvent(event', "failed") =>
            /\ deployment_rings'[event'.ring] =
                   [status |-> "Failed", failure_reason |-> event'.reason]
            /\ event'.reason \in FailureReasons
            /\ \A r \in RingIds :
                   (r > event'.ring /\ deployment_rings[r].status \in {"Not Started", "In Progress"})
                       => deployment_rings'[r].status = "Stopped"
            /\ deployments' = "Failed"
            /\ runs'[event'.run].pc = "done"
            /\ runs'[event'.run].failed_at = event'.ring
       /\ \A t \in RunIds :
            runs[t].failed_at >= 0 => ~(event'.kind = "gate" /\ event'.run = t)
      ]_vars

C2_Witness ==
    /\ GateEvent(event, "failed")
    /\ event.ring = 0
    /\ event.reason = "cpu exceeds threshold"
    /\ \A r \in RingIds : r > 0 => deployment_rings[r].status = "Stopped"
    /\ deployments = "Failed"

\* C3: a ring with devices is marked Completed only after a gating call for it
\* that returned "passed"; no other gating outcome turns the ring Completed.
C3_CompletedOnlyIfPassed ==
    [][(event'.kind = "gate" /\ event'.outcome # "passed"
            /\ deployment_rings[event'.ring].status # "Completed")
         => deployment_rings'[event'.ring].status # "Completed"]_vars

\* C4: a gating call that raises ends like a gating failure: the ring Failed,
\* the remaining Not Started / In Progress rings Stopped, the deployment
\* Failed, no ring left In Progress.
C4_GatingErrorIsFailure ==
    [][GateEvent(event', "raise") =>
          /\ deployment_rings'[event'.ring].status = "Failed"
          /\ \A r \in RingIds :
                 (r # event'.ring /\ deployment_rings[r].status \in {"Not Started", "In Progress"})
                     => deployment_rings'[r].status = "Stopped"
          /\ deployments' = "Failed"
          /\ \A r \in RingIds : deployment_rings'[r].status # "In Progress"]_vars

\* C5: at most one ring of the deployment is In Progress at any moment, and a
\* ring enters In Progress only when every ring with a smaller ring_id is
\* Completed.
C5_SequentialRings ==
    /\ [](Cardinality(InProgressRings) <= 1)
    /\ [][\A r \in RingIds :
            (deployment_rings'[r].status = "In Progress"
                /\ deployment_rings[r].status # "In Progress")
              => \A q \in RingIds : q < r => deployment_rings'[q].status = "Completed"]_vars

\* C6: once the deployment is Failed with a Failed ring, no later step moves a
\* ring after the Failed one to In Progress or Completed, and the deployment
\* stays Failed.
C6_FailedIsAbsorbing ==
    [][(deployments = "Failed" /\ \E k \in RingIds : deployment_rings[k].status = "Failed")
          => /\ deployments' = "Failed"
             /\ \A k, r \in RingIds :
                  (deployment_rings[k].status = "Failed" /\ r > k
                      /\ deployment_rings'[r].status \in {"In Progress", "Completed"})
                    => deployment_rings'[r].status = deployment_rings[r].status]_vars

\* C7: when stop_deployment, called during the dwell wait of ring k, returns,
\* ring k is Stopped and no ring of the deployment is In Progress.
C7_StopMarksRingStopped ==
    [][\A c \in Callers :
          (calls[c].op = "stop" /\ calls'[c].op = "idle" /\ calls[c].ring >= 0)
            => /\ deployment_rings'[calls[c].ring].status = "Stopped"
               /\ \A r \in RingIds : deployment_rings'[r].status # "In Progress"]_vars

\* The rows a step of run t passes over: from the row after the one it was at
\* up to the row it stops at.
PassedOver(t) ==
    LET from == IF runs[t].pc = "created" THEN 0 ELSE runs[t].ring + 1
        to == IF runs'[t].pc = "sleep" THEN runs'[t].ring ELSE NumRings
        rows == IF runs[t].pc = "created"
                THEN [r \in RingIds |-> deployment_rings[r].status]
                ELSE runs[t].rings
    IN {r \in RingIds : from <= r /\ r < to /\ rows[r] \notin {"Completed", "Failed"}}

RunAdvances(t) ==
    /\ runs[t].pc \in {"created", "sleep"}
    /\ runs'[t].pc \in {"sleep", "done"}
    /\ runs'[t].pc = "sleep" => (runs[t].pc = "created" \/ runs'[t].ring # runs[t].ring)
    /\ event'.outcome \notin {"failed", "raise"}

\* C8: a ring without devices goes straight to Completed, with no dwell and no
\* gating call, and the run goes on in the same step to the next ring; a ring
\* with devices is put In Progress, dwelt on, and then gated.
C8_EmptyRingCompletesDirectly ==
    [][\A t \in RunIds :
         /\ RunAdvances(t) =>
              /\ \A r \in PassedOver(t) :
                    /\ devices[r] = 0
                    /\ deployment_rings'[r].status = "Completed"
                    /\ ~(event'.kind = "gate" /\ event'.ring = r)
              /\ runs'[t].pc = "sleep" =>
                    /\ devices[runs'[t].ring] > 0
                    /\ deployment_rings'[runs'[t].ring].status = "In Progress"
         /\ (runs[t].pc = "sleep" /\ runs'[t].pc # "cancelled"
               /\ (runs'[t].pc # "sleep" \/ runs'[t].ring # runs[t].ring))
              => (event'.kind = "gate" /\ event'.run = t /\ event'.ring = runs[t].ring)
      ]_vars

C8_Witness ==
    /\ devices[0] = 0 /\ devices[1] = 1
    /\ deployment_rings[0].status = "Completed"
    /\ deployment_rings[1].status = "In Progress"
    /\ runs[1].pc = "sleep" /\ runs[1].ring = 1
    /\ runs[2].pc = "none"
    /\ event = NoEvent

\* ------------------------------------------------------------ Part II claims

\* C1: every agent id occurs in at most one ring's membership list, and at
\* most once in it.
C1_UniqueRingMembership ==
    \A s \in SlaveIds : Memberships(ring_assignments, s) <= 1

C9_StatusIsRollup ==
    /\ deployments = "Completed" <=> \A r \in RingIds : deployment_rings[r].status = "Completed"
    /\ (\E r \in RingIds : deployment_rings[r].status = "Failed") => deployments = "Failed"

\* The tasks a step hands to an agent: those it sends a TASK_ASSIGNMENT for.
AssignedBy(e) == {m[3] : m \in {x \in e.sent : x[1] = "task_assignment"}}

\* The tasks waiting for assignment when a step runs _assign_tasks: the
\* pending ones and the one the step itself submits, but not the one whose
\* result the step records.
Waiting(e) ==
    ({t \in TaskIds : tasks[t].status = "pending"}
        \cup (IF e.kind = "submit_task" THEN {e.task} ELSE {}))
        \ (IF e.kind = "task_result" THEN {e.task} ELSE {})

\* Task ids are given in submission order; a task's priority is the one it has
\* when the step assigns.
GoesFirst(a, b) ==
    \/ tasks'[a].priority > tasks'[b].priority
    \/ tasks'[a].priority = tasks'[b].priority /\ a < b

\* C12: tasks are assigned by descending priority, ties by submission order: a
\* step never assigns a waiting task b while a waiting task a that goes first
\* (higher priority, or equal priority and submitted earlier) stays unassigned.
C12_PriorityThenSubmissionOrder ==
    [][\A a, b \in Waiting(event') :
          (GoesFirst(a, b) /\ b \in AssignedBy(event')) => a \in AssignedBy(event')]_vars

\* C13: a task monitor pass marks every in_progress task older than
\* task_timeout Failed, and requeues it as Pending exactly when it has been
\* retried fewer than task_retry_limit times, whatever its priority.
C13_RetryByRetryCount ==
    [][event'.kind = "task_monitor" =>
          \A t \in TaskIds :
              (tasks[t].status = "in_progress" /\ tasks[t].since_started > task_timeout) =>
                  IF tasks[t].retries < task_retry_limit
                  THEN tasks'[t].status = "pending" /\ InSeq(t, task_queue')
                  ELSE tasks'[t].status = "failed"]_vars

\* C14: when submit_task is called while a registered agent is idle, on return
\* the highest-priority pending task is in_progress with a fresh start time,
\* assigned to an agent that is busy, and a TASK_ASSIGNMENT for it was sent to
\* that agent.
C14_SubmitAssignsAtOnce ==
    [][(event'.kind = "submit_task" /\ \E i \in 1 .. Len(slaves) : slaves[i].status = "idle") =>
          \E t \in Waiting(event') :
              /\ \A u \in Waiting(event') : tasks'[u].priority <= tasks'[t].priority
              /\ tasks'[t].status = "in_progress"
              /\ tasks'[t].since_started = 0
              /\ Has(slaves', tasks'[t].assigned_to)
              /\ Get(slaves', tasks'[t].assigned_to).status = "busy"
              /\ <<"task_assignment", tasks'[t].assigned_to, t>> \in event'.sent]_vars

\* C16: processing a TASK_RESULT for a known task marks the task Completed
\* (no error) or Failed (error), takes it off the reporting agent's assigned
\* list and frees the agent, adds one to exactly one of the agent's
\* completed / failed counters, and attempts assignment at once (so a task
\* stays pending only if no agent is idle).
C16_TaskResultHandled ==
    [][event'.kind = "task_result" =>
          LET s == event'.sender
              t == event'.task
              failed == event'.outcome # "none"
          IN /\ \/ tasks'[t].status = (IF failed THEN "failed" ELSE "completed")
                \/ t \in AssignedBy(event')
             /\ Has(slaves', s)
             /\ Has(slaves, s)
             /\ Get(slaves', s).completed_tasks + Get(slaves', s).failed_tasks
                   = Get(slaves, s).completed_tasks + Get(slaves, s).failed_tasks + 1
             /\ Get(slaves', s).failed_tasks = Get(slaves, s).failed_tasks + (IF failed THEN 1 ELSE 0)
             /\ \/ Get(slaves', s).status = "idle" /\ ~InSeq(t, Get(slaves', s).assigned_tasks)
                \/ \E u \in AssignedBy(event') : tasks'[u].assigned_to = s
             /\ \/ task_queue' = <<>>
                \/ \A i \in 1 .. Len(slaves') : slaves'[i].status # "idle"]_vars

\* C17: a task whose agent had no handler for its type is failed by the
\* agent's TASK_RESULT (an error, no result) and from then on stays Failed: it
\* is never requeued or reassigned.
C17_UnknownTaskTypeStaysFailed ==
    /\ [](execute_task(FALSE).error # "none" /\ execute_task(FALSE).result = "none")
    /\ [][\A t \in TaskIds :
            (tasks[t].status = "failed" /\ tasks[t].error = NoHandlerError) =>
                /\ tasks'[t].status = "failed"
                /\ InSeq(t, task_queue') => InSeq(t, task_queue)]_vars

\* The number of submit_task calls made so far: task ids are given in
\* submission order.
Submitted == Cardinality({t \in TaskIds : tasks[t].status # "none"})

TaskAccounted(t) ==
    \/ tasks[t].status = "none"
    \/ InSeq(t, task_queue)
    \/ /\ tasks[t].status = "in_progress"
       /\ Has(slaves, tasks[t].assigned_to)
       /\ InSeq(t, Get(slaves, tasks[t].assigned_to).assigned_tasks)
    \/ tasks[t].status \in {"completed", "failed"}

\* C11: no task is silently dropped under any interleaving of the heartbeat
\* monitor, the task monitor and task assignment, which may be suspended at
\* each message it sends: in every reachable state every task is in the
\* pending queue, or in progress and in the assigned list of an agent of the
\* live set, or terminal.
C11_NoTaskDropped == \A t \in TaskIds : TaskAccounted(t)

\* The messages that fail locally: a result that reports an error, a result
\* for an unknown task, a result or an error from an agent that is not
\* registered, a device status that cannot be parsed.
LocalFailure(e) ==
    \/ e.kind = "task_result" /\ (e.outcome # "none" \/ e.reason = "unknown task" \/ e.raised)
    \/ e.kind = "slave_error"
    \/ e.kind = "device_status" /\ e.reason = "unparseable"

\* The failing messages the master cannot act on: all but the result that a
\* registered agent sends for a known task.
Dropped(e) == e.kind # "task_result" \/ e.reason = "unknown task" \/ e.raised

C19_SendNeverBlocks ==
    /\ [](\A c \in Senders : send_calls[c].pc # "put")
    /\ [][\A to \in SlaveIds :
             event'.kind = "send" /\ event'.channel = to =>
                IF full(queues[to])
                THEN /\ event'.outcome = "False"
                     /\ queues'[to].queue = queues[to].queue
                     /\ queues'[to].dropped = queues[to].dropped + 1
                ELSE /\ event'.outcome = "True"
                     /\ queues'[to].sent = queues[to].sent + 1]_vars

\* C20: receive with a timeout returns the oldest message of the channel if
\* one is there within the timeout and none when the timeout expires, for
\* every timeout including 0: it never waits longer than the timeout.
C20_ReceiveHonoursTimeout ==
    /\ [](\A s \in SlaveIds :
             receive_calls[s].pc = "get" => receive_calls[s].waited <= receive_calls[s].timeout)
    /\ [][\A s \in SlaveIds :
             /\ event'.kind \in {"receive", "receive_resume", "receive_timeout"}
             /\ event'.channel = s
             /\ event'.outcome # "suspended"
             => \/ /\ event'.outcome = "message"
                   /\ queues[s].queue # <<>>
                   /\ event'.message = Head(queues[s].queue)
                \/ /\ event'.outcome = "None"
                   /\ receive_calls[s].waited = receive_calls[s].timeout]_vars

\* C21: each recipient has its own ordered mailbox: a channel changes only by
\* a message addressed to its owner entering at the tail or by its oldest
\* message leaving, the message a receive returns is that oldest message of
\* the receiver's own channel, and no channel ever holds a message addressed
\* to another receiver.
C21_OrderedMailboxPerRecipient ==
    /\ [](\A s \in SlaveIds : \A i \in 1 .. Len(queues[s].queue) :
              queues[s].queue[i].receiver_id = s)
    /\ [][\A s \in SlaveIds :
            \/ queues'[s].queue = queues[s].queue
            \/ /\ event'.outcome = "True"
               /\ event'.message.receiver_id = s
               /\ queues'[s].queue = Append(queues[s].queue, event'.message)
            \/ /\ event'.outcome = "message"
               /\ event'.channel = s
               /\ queues[s].queue # <<>>
               /\ event'.message = Head(queues[s].queue)
               /\ event'.message.receiver_id = s
               /\ queues'[s].queue = Tail(queues[s].queue)]_vars

\* A receive has just returned the older of two different messages that were
\* in the receiver's channel; the newer one is still there.
C21_Witness ==
    /\ event.outcome = "message"
    /\ queues[event.channel].queue # <<>>
    /\ Head(queues[event.channel].queue) # event.message
    /\ \E s \in SlaveIds : s # event.channel /\ queues[s].queue # <<>>

\* What the channel does keep: messages leave in the order they entered, and
\* the counters account for every message.
QueueCountersAgree ==
    \A s \in SlaveIds : /\ queues[s].sent = queues[s].received + Len(queues[s].queue)
                        /\ queues[s].dropped = 0
                        /\ Len(queues[s].queue) <= QueueMaxsize

\* ---- C22
AllLoopsDone(s) ==
    /\ slave_agent[s].heartbeat_task = "done"
    /\ slave_agent[s].message_task = "done"
    /\ slave_agent[s].device_monitor_task = "done"

\* C22 (first half): once stop() has been called every background task that
\* start() created is cancelled, and SHUTDOWN eventually reaches the channel of
\* every agent that was in slaves.
C22_StopCancelsAndBroadcasts ==
    /\ [](orchestrator.stop # "none" =>
             /\ orchestrator.background_tasks = {}
             /\ orchestrator.cancelled = BackgroundTasks(orchestrator.kind))
    /\ [](orchestrator.stop # "none" => <>(orchestrator.stop = "stopped"))

\* C22 (second half): an agent that has processed SHUTDOWN has running false,
\* and its three loops eventually return.
C22_AgentLoopsExit ==
    \A s \in SlaveIds :
       /\ [](slave_agent[s].status = "stopped" => ~slave_agent[s].running)
       /\ [](slave_agent[s].status = "stopped" => <>AllLoopsDone(s))

\* C22: stopping the master cancels every background loop it started and sends
\* Shutdown to every agent in the live set; each agent that processes Shutdown
\* sets running false and all of its loops eventually exit.
C22_StopShutsEverythingDown == C22_StopCancelsAndBroadcasts /\ C22_AgentLoopsExit

\* ---- C23
\* C23: an agent that register_slave has put in the live set is idle from the
\* registration on, has a device record, and the record's assigned ring is
\* not "unassigned", also after the master has processed the agent's
\* heartbeats and device status updates.
C23_RegisteredAgentKeepsRing ==
    \A s \in SlaveIds :
       Has(slaves, s) =>
          /\ Has(device_statuses, s)
          /\ Get(device_statuses, s).assigned_ring # "unassigned"
          /\ (event.kind = "process_message" /\ event.reason = "registration" /\ event.sender = s)
                => Get(slaves, s).status = "idle"

\* ---- C24
\* assign_slave_to_ring(s, R) has just been called for the registered agent s
AssignedTo(s, R) ==
    event.kind = "assign_slave_to_ring" /\ event.channel = s /\ event.reason = R

\* The agent s has just acknowledged ring R, which is its local ring
Acknowledged(s, R) ==
    event.kind = "ack" /\ event.sender = s /\ event.reason = R /\ slave_agent[s].assigned_ring = R

Registers(s) == ~Has(slaves, s) /\ Has(slaves', s) /\ Has(device_statuses', s)

\* C25: auto-assignment never places a device that is unhealthy at the time of
\* the assignment (battery <= 20 or cpu >= 80 or memory >= 85) in prod; it
\* places it in canary or dev.
C25_UnhealthyNeverAutoAssignedProd ==
    [][\A s \in SlaveIds :
          Registers(s) /\ ~is_healthy(Get(device_statuses', s))
          => Get(device_statuses', s).assigned_ring \in UnhealthyRings]_vars

\* C26: auto-assignment of a healthy device puts it in a ring whose membership
\* count, before the assignment, is minimal among canary, dev, stage and prod.
C26_HealthyAutoAssignedToSmallestRing ==
    [][\A s \in SlaveIds :
          Registers(s) /\ is_healthy(Get(device_statuses', s))
          => LET ring == Get(device_statuses', s).assigned_ring
             IN /\ ring \in DeployableRings
                /\ \A r \in DeployableRings :
                      Len(ring_assignments[ring]) <= Len(ring_assignments[r])]_vars

\* C27: after a rebalance pass every known device is in a ring, and no
\* unhealthy device is left in prod.
C27_RebalancePassCoversEveryDevice ==
    event.kind = "ring_rebalancer"
    => \A i \in 1 .. Len(device_statuses) :
          /\ device_statuses[i].assigned_ring # "unassigned"
          /\ ~is_healthy(device_statuses[i]) => device_statuses[i].assigned_ring # "prod"

\* ---- the agent's tasks (SpecTask)
\* The agent is between two messages: at the head of its message loop, or
\* the loop has not started or has returned.
BetweenMessages(agent) == agent.message_task \in {"none", "running", "done"}

\* C28: per task the agent goes idle, busy, idle: once it has handled a
\* TaskAssignment (its handler succeeded, its handler raised, or the task type
\* was unknown) its status is idle, it has no current task, and it has sent
\* exactly one TaskResult for the assignment; it is busy only while it handles one.
C28_IdleAfterEveryTask ==
    /\ \A s \in AgentIds :
          BetweenMessages(slave_agent[s])
          => slave_agent[s].status # "busy" /\ slave_agent[s].current_task = 0
    /\ event.kind = "task_handled"
       => /\ slave_agent[event.sender].status = "idle"
          /\ slave_agent[event.sender].current_task = 0
          /\ slave_agent[event.sender].results = 1

\* The agent has handled an assignment whose handler raised.
C28_Witness ==
    /\ event.kind = "task_handled"
    /\ event.reason = "handler"
    /\ slave_agent[event.sender].status = "idle"
    /\ slave_agent[event.sender].results = 1

\* ---- persisted writes (SpecWrite)
\* The most connections one call opens.
MaxAttempts(op) ==
    IF op \in DeviceWrites THEN max_retries ELSE deployment_max_retries * max_retries

WriteBounded ==
    /\ db_write.attempts <= MaxAttempts(db_write.op)
    /\ db_write.pc = "returned"
       => /\ db_write.result \in {"True", "False"}
          /\ db_write.result = "True" <=> db_write.last = "ok"

\* C29: a write that meets lock or busy errors is tried a bounded number of
\* times (3 for a device or ring update, at most 5 x 3 for a deployment
\* status), then returns False instead of raising; every call returns.
C29_WriteRetriesAreBounded ==
    /\ []WriteBounded
    /\ (db_write.pc = "try") ~> (db_write.pc = "returned")

\* A deployment status write has returned False after 15 attempts.
C29_Witness ==
    /\ db_write.op = "update_deployment_status"
    /\ db_write.pc = "returned"
    /\ db_write.result = "False"
    /\ db_write.last = "locked"
    /\ db_write.attempts = deployment_max_retries * max_retries

\* ---- DeviceStatus as a dictionary (SpecWire)
\* C30: for every DeviceStatus d, from_dict(to_dict(d)) equals d field for
\* field, the assigned_ring member and the last_updated timestamp included.
C30_DeviceStatusRoundTrip ==
    wire.pc = "from_dict" => wire.device_restored = wire.device

\* A device in prod, last updated at 999999 microseconds, has gone through
\* both functions: its dictionary holds "prod" and a string with six digits.
C30_Witness ==
    /\ wire.pc = "from_dict"
    /\ wire.device.assigned_ring = "PROD"
    /\ wire.device.last_updated.microsecond = 999999
    /\ wire.device_dict.assigned_ring = "prod"
    /\ Len(wire.device_dict.last_updated) = 8
    /\ wire.device_restored.last_updated.microsecond = 999999

\* ---- device health (SpecHealth)
\* C31: is_healthy answers true exactly when battery_level > 20, cpu_usage < 80
\* and memory_usage < 85: a battery of 20, a cpu of 80 or a memory of 85 each
\* make the device unhealthy, and battery 21 with cpu 79 and memory 84 is healthy.
C31_HealthyExactlyWithinThresholds ==
    wire.pc = "is_healthy"
    => LET d == wire.device
       IN /\ wire.healthy <=> (d.battery_level > 20 /\ d.cpu_usage < 80 /\ d.memory_usage < 85)
          /\ (d.battery_level = 20 \/ d.cpu_usage = 80 \/ d.memory_usage = 85) => ~wire.healthy
          /\ (d.battery_level = 21 /\ d.cpu_usage = 79 /\ d.memory_usage = 84) => wire.healthy

\* is_healthy has answered false for a device whose only fault is a battery of 20.
C31_Witness ==
    /\ wire.pc = "is_healthy"
    /\ wire.device.battery_level = 20
    /\ wire.device.cpu_usage = 79
    /\ wire.device.memory_usage = 84
    /\ ~wire.healthy

\* ---- risk scores (SpecRisk)
\* The band of a score for the total of the three usages (three times avg)
InBand(total, score) ==
    /\ score \in 0 .. 100
    /\ total > 240 => score <= 30
    /\ (total > 150 /\ total <= 240) => (score >= 31 /\ score <= 70)
    /\ total <= 150 => score >= 71

\* C32: for metrics in 0..100 each risk score is an integer of [0,100], in
\* [0,30] when avg > 80, in [31,70] when 50 < avg <= 80, in [71,100] when
\* avg <= 50, and never rises when avg rises; both implementations agree on this.
C32_RiskScoreBandsAndMonotone ==
    wire.pc = "risk"
    => /\ InBand(Total(wire.usage), wire.service)
       /\ InBand(Total(wire.usage), wire.manager)
       /\ wire.before.total <= Total(wire.usage)
          => wire.service <= wire.before.service /\ wire.manager <= wire.before.manager

\* A device at avg = 80 has been scored in the middle band after one just
\* below, and the two implementations give different scores there.
C32_Witness ==
    /\ wire.pc = "risk"
    /\ Total(wire.usage) = 240
    /\ wire.before.total = 239
    /\ wire.service = 40
    /\ wire.manager = 31

\* ---- the pending queue and the agents' tasks (SpecMaster)
\* How often task t is in the queue q
Occurrences(q, t) == Cardinality({i \in 1 .. Len(q) : q[i] = t})

\* The slaves that hold task t in their assigned_tasks
Holders(t) == {i \in 1 .. Len(slaves) : InSeq(t, slaves[i].assigned_tasks)}

\* C33: the pending queue holds exactly the tasks whose status is pending,
\* each once: no task is in the queue twice, no task of the queue is
\* in_progress, completed or failed, and no task is held by two agents.
C33_QueueHoldsExactlyThePending ==
    \A t \in TaskIds :
       /\ Occurrences(task_queue, t) = (IF tasks[t].status = "pending" THEN 1 ELSE 0)
       /\ Cardinality(Holders(t)) <= 1

\* The in_progress tasks that name slave_id as their agent and are in its list
Running(info) ==
    {t \in TaskIds : /\ tasks[t].status = "in_progress"
                     /\ tasks[t].assigned_to = info.slave_id
                     /\ InSeq(t, info.assigned_tasks)}

\* C34: a live agent is busy exactly when one in_progress task has it as its
\* assigned agent and is in its assigned_tasks; an agent whose task has timed
\* out does not stay busy without an in_progress task.
C34_BusyIffOneTaskInProgress ==
    \A i \in 1 .. Len(slaves) :
       slaves[i].status = "busy" <=> Cardinality(Running(slaves[i])) = 1

\* C35: completed is a terminal status: once a task is completed, no later
\* result, monitor pass, eviction or assignment changes its status, its
\* outcome or its assigned agent.
C35_CompletedIsTerminal ==
    [][\A t \in TaskIds :
          tasks[t].status = "completed"
          => /\ tasks'[t].status = "completed"
             /\ tasks'[t].error = tasks[t].error
             /\ tasks'[t].assigned_to = tasks[t].assigned_to]_vars

\* ---- requeued tasks (SpecRequeue)
\* Task t is pending after the task monitor or an eviction has requeued it.
Requeued(t) ==
    /\ tasks[t].status = "pending"
    /\ tasks[t].retries > 0 \/ t \in event.requeued

SomeAgentIdle == \E i \in 1 .. Len(slaves) : slaves[i].status = "idle"

\* C36: a task that the timeout monitor or an eviction has requeued as
\* pending is assigned eventually while some live agent is idle, also when no
\* further task is submitted and no further result arrives.
C36_RequeuedTaskIsAssigned ==
    \A t \in TaskIds :
       (Requeued(t) /\ SomeAgentIdle) ~> (tasks[t].status # "pending" \/ ~SomeAgentIdle)

\* ---- rings and eviction (SpecEvict)
\* The master's device record of agent s names ring R.
RecordedIn(s, R) == Has(device_statuses, s) /\ Get(device_statuses, s).assigned_ring = R

\* C37: ring membership and device records agree and refer only to live
\* agents: agent s is in ring R's membership list exactly if the master's
\* device record of s has assigned_ring = R, and an agent that is not in the
\* live set (one the heartbeat monitor evicted) is in no membership list.
C37_RingsAgreeWithRecords ==
    \A s \in SlaveIds :
       /\ \A R \in DOMAIN ring_assignments :
             InSeq(s, ring_assignments[R]) <=> RecordedIn(s, R)
       /\ ~Has(slaves, s) => \A R \in DOMAIN ring_assignments : ~InSeq(s, ring_assignments[R])

\* ---- the scheduler's tasks and bookkeeping (Spec)
\* The progression tasks that have been created and have not ended.
RunningTasks(rs) == {t \in RunIds : rs[t].pc \in {"created", "sleep"}}

\* The start and stop calls that are suspended in their await.
CallsInFlight == {c \in Callers : calls[c].op # "idle"}

\* C38: at most one ring-progression task of the deployment is running at any
\* time, whatever start_deployment and stop_deployment calls are made, and a
\* stop_deployment call that found the deployment running returns with no
\* entry for it in active_deployments.
C38_OneProgressionTask ==
    [][/\ Cardinality(RunningTasks(runs')) <= 1
       /\ \A c \in Callers :
             calls[c].op = "stop" /\ calls'[c].op = "idle" => active_deployments' = 0]_vars

\* Some progression task was created, every created task has ended, and no
\* start or stop call is suspended.
ProgressionEnded ==
    /\ \E t \in RunIds : runs[t].pc # "none"
    /\ RunningTasks(runs) = {}
    /\ CallsInFlight = {}

\* C39: whenever the deployment's progression task has ended, the deployment
\* has no entry in active_deployments and its timer status is not "running"
\* but one of "completed", "failed", "stopped", "error", whichever way the
\* task ended.
C39_EndedTaskIsBookkept ==
    ProgressionEnded =>
       /\ active_deployments = 0
       /\ deployment_timers.status \in {"completed", "failed", "stopped", "error"}

\* ---- the deployment watcher (SpecWatch)
\* Deployment d is Completed and so is every one of its rings.
WatchCompleted(d) ==
    /\ deployment_table[d].status = "Completed"
    /\ \A r \in RingIds : deployment_table[d].rings[r] = "Completed"

\* The rings of d have been taken in ring order: behind a ring that is not
\* Completed no ring has been touched.
InRingOrder(d) ==
    \A r, q \in RingIds :
       r < q /\ deployment_table[d].rings[q] # "Not Started"
       => deployment_table[d].rings[r] = "Completed"

\* C40: a deployment that the watcher has started is started at most once
\* until it completes, its rings are taken in ring order, and it reaches
\* Completed with all of its rings Completed eventually, also when several
\* deployments are found Started in one pass or while another is active.
C40_StartedOnceAndCompleted ==
    /\ [](\A d \in DeploymentIds : starts[d] <= 1 /\ InRingOrder(d))
    /\ \A d \in DeploymentIds : (starts[d] > 0) ~> WatchCompleted(d)


====
